---- MODULE Spec2Model ----
(***************************************************************************)
(* PI thermostat controller (custom_components/pi_thermostat).             *)
(*                                                                         *)
(* PIController (pi_controller.py) wraps a simple_pid.PID object.  The     *)
(* wrapper's methods are the actions of this module; the PID object it     *)
(* owns is the record `pid`, and the PID methods the wrapper calls are the *)
(* operators PID_*, which follow the simple-pid 2.0 library: the limits    *)
(* setter, reset() and set_auto_mode() each clamp the integral term, and a *)
(* call within sample_time returns the last output.                        *)
(*                                                                         *)
(* Numbers.  Temperatures (Kelvin) and times (seconds) are integers.       *)
(* Outputs, the proportional and integral terms and the output limits are  *)
(* integers counting 1/OutUnit of a percent, so 100 % is 100 * OutUnit and  *)
(* Kp is in 1/OutUnit % per Kelvin.  Ki is a fraction: pid.Ki holds its     *)
(* numerator over the fixed denominator KiDen.  The parameter sets below   *)
(* are chosen so that every division is exact, and arithmetic is that of   *)
(* the reals.                                                              *)
(***************************************************************************)
EXTENDS Integers, Sequences, FiniteSets, TLC

VARIABLES
    pid,                \* self._pid           (simple_pid.PID object)
    is_cooling,         \* self._is_cooling
    proportional_band,  \* self._proportional_band
    integral_time_min,  \* self._integral_time_min
    result,             \* what the latest operation returned: the PIResult of
                        \* update(), NoResult after an operation returning None,
                        \* Raised(e) after an operation that raised e
    lastOp,             \* name of the latest operation (history); a set_cooling
                        \* call that finds the mode unchanged is "set_cooling_noop"
    \* DataUpdateCoordinator (coordinator.py), which owns the controller above
    entry,              \* the config entry's options that only a reload changes
    fault_cycles,       \* self._fault_cycles
    last_good_output,   \* self._last_good_output
    last_data,          \* self._last_data
    last_applied,       \* self._last_prop_band .. self._last_update_interval
    data,               \* what the latest cycle returned (CoordinatorData)
    written,            \* the values the latest cycle passed to set_output
    pi_calls,           \* the controller methods the latest cycle called, in order
    cycle,              \* the path the latest cycle took (history)
    \* The integration around the coordinator (__init__.py, config_flow.py)
    setup,              \* how far async_setup_entry has come for this coordinator
    options,            \* entry.options as stored by Home Assistant (a dict)
    merged_config,      \* coordinator._merged_config
    runtime_data,       \* entry.runtime_data: its config, None when not set
    reloaded,           \* what the latest async_reload_entry did (history)
    flow                \* the open OptionsFlowHandler, None when none is open

piVars == <<pid, is_cooling, proportional_band, integral_time_min, result, lastOp>>
haVars == <<setup, options, merged_config, runtime_data, reloaded, flow>>
coordVars == <<entry, fault_cycles, last_good_output, last_data, last_applied,
               data, written, pi_calls, cycle,
               setup, options, merged_config, runtime_data, reloaded, flow>>
vars == <<pid, is_cooling, proportional_band, integral_time_min, result, lastOp,
          entry, fault_cycles, last_good_output, last_data, last_applied,
          data, written, pi_calls, cycle,
          setup, options, merged_config, runtime_data, reloaded, flow>>

(***************************************************************************)
(* Bounds and input sets                                                   *)
(***************************************************************************)
MaxTempSteps == 2
MaxDtSteps == 3

Temps == {15 + 5 * k : k \in 0..MaxTempSteps}       \* current_temp
Dts == {60 * k : k \in 1..MaxDtSteps}               \* dt, seconds (> 0)
Setpoints == {20, 25}
PropBands == {5, 25}                                \* Kelvin, > 0
IntegralTimes == {1, 2}                             \* minutes, > 0
SampleTimes == {120, 180}                           \* seconds
OutUnit == 2
Pct(x) == x * OutUnit                               \* x percent

Limits == {<<Pct(0), Pct(100)>>, <<Pct(20), Pct(80)>>, <<Pct(10), Pct(50)>>}
                                                    \* output_min < output_max
RestoreValues == {Pct(-10), Pct(0), Pct(30), Pct(150)}

KiDen == 360

\* hvac_to_pid_gains is exercised on every pair of parameters up to
\* MaxGainParam whose gains are representable without rounding
MaxGainParam == 10
ExactGains(pb, it) ==
    /\ Pct(100) % pb = 0
    /\ ((Pct(100) \div pb) * KiDen) % (it * 60) = 0
GainPairs ==
    {pr \in (1..MaxGainParam) \X (1..MaxGainParam) : ExactGains(pr[1], pr[2])}

\* Arguments outside the documented preconditions (proportional band and
\* integral time > 0, output_min < output_max, dt > 0)
ErrPropBands == {-5, 0, 5}
ErrIntegralTimes == {-1, 0, 1}
ErrLimits == {<<Pct(0), Pct(100)>>, <<Pct(50), Pct(50)>>, <<Pct(80), Pct(20)>>}
ErrDts == {0, 120}
ErrTemps == {15, 25}
Elapsed == {0, 120}                             \* wall-clock seconds between calls

\* The controller of the unit tests' fixture (heating_controller)
TEST_PROP_BAND == 4
TEST_INT_TIME == 30
TEST_OUTPUT_MIN == 0
TEST_OUTPUT_MAX == 100
TEST_SAMPLE_TIME == 60
TEST_SETPOINT == 21
MaxExampleSteps == 2
ExampleTemps == {TEST_SETPOINT - 3 * k : k \in (-1)..MaxExampleSteps}
ExampleDts == {TEST_SAMPLE_TIME, 2 * TEST_SAMPLE_TIME}

None == <<>>
Some(v) == <<v>>
IsNone(x) == x = <<>>
Val(x) == x[1]

Abs(x) == IF x < 0 THEN -x ELSE x

\* float("nan"): the one value of the model that is not a finite number.  It
\* compares false with everything and every sum or product with it is NaN.
NaN == 1000000000

(***************************************************************************)
(* simple_pid.PID, as used by the wrapper                                  *)
(***************************************************************************)

\* simple_pid._clamp on a number: both comparisons are false for NaN, which
\* is returned as it is
clamp(value, lower, upper) ==
    IF value = NaN THEN NaN
    ELSE IF value > upper THEN upper
    ELSE IF value < lower THEN lower
    ELSE value

\* simple_pid._clamp on an optional number (None stays None)
clampOpt(x, lower, upper) ==
    IF IsNone(x) THEN None ELSE Some(clamp(Val(x), lower, upper))

\* Mutant: reset leaves the integral at 0 without bringing it into the limits
PID_reset_noClamp(p) ==
    [p EXCEPT !.proportional = 0, !.integral = 0, !.last_output = None]

\* PID.reset(): clears the terms, re-clamps the integral, forgets the last output
PID_reset(p) ==
    [p EXCEPT !.proportional = 0,
              !.integral = clamp(0, p.min_output, p.max_output),
              !.last_output = None]

\* Mutant: the limits setter forgets to re-clamp the held output
PID_set_output_limits_keepLast(p, lo, hi) ==
    [p EXCEPT !.min_output = lo,
              !.max_output = hi,
              !.integral = clamp(p.integral, lo, hi)]

\* Mutant: the limits setter only stores the limits
PID_set_output_limits_storeOnly(p, lo, hi) ==
    [p EXCEPT !.min_output = lo, !.max_output = hi]

\* PID.output_limits setter: stores the limits, re-clamps integral and last output
PID_set_output_limits(p, lo, hi) ==
    [p EXCEPT !.min_output = lo,
              !.max_output = hi,
              !.integral = clamp(p.integral, lo, hi),
              !.last_output = clampOpt(p.last_output, lo, hi)]

\* Mutant: switching to auto mode takes the given integral as it is
PID_set_auto_mode_noClamp(p, enabled, last) ==
    IF enabled /\ ~p.auto_mode
    THEN [PID_reset(p) EXCEPT
              !.integral = IF IsNone(last) THEN 0 ELSE Val(last),
              !.auto_mode = enabled]
    ELSE [p EXCEPT !.auto_mode = enabled]

\* PID.set_auto_mode(enabled, last_output)
PID_set_auto_mode(p, enabled, last) ==
    IF enabled /\ ~p.auto_mode
    THEN [PID_reset(p) EXCEPT
              !.integral = clamp(IF IsNone(last) THEN 0 ELSE Val(last),
                                 p.min_output, p.max_output),
              !.auto_mode = enabled]
    ELSE [p EXCEPT !.auto_mode = enabled]

\* PID.output_limits setter: 'lower limit must be less than upper limit' is
\* raised only when the upper limit is below the lower one
PID_limits_rejected(lo, hi) == hi < lo

\* PID.__init__(Kp, Ki, Kd=0, setpoint, sample_time, output_limits)
PID_init(kp, ki, sp, st, lo, hi) ==
    [Kp |-> kp, Ki |-> ki, setpoint |-> sp, sample_time |-> st,
     min_output |-> lo, max_output |-> hi, auto_mode |-> TRUE,
     proportional |-> 0, integral |-> clamp(0, lo, hi), last_output |-> None]

\* Mutant: the integral increment ignores the elapsed time (takes 60 s)
IntegralStep_fixedDt(p, error, dt) == (p.Ki * error * 60) \div KiDen

\* The integral increment Ki * error * dt (Ki = p.Ki / KiDen)
IntegralStep(p, error, dt) == (p.Ki * error * dt) \div KiDen

\* Mutant: the sample-time check does not ask whether an output is held
Gated_noOutputCheck(p, dt) == dt < p.sample_time

\* True when PID.__call__ returns the held output without computing
Gated(p, dt) == dt < p.sample_time /\ ~IsNone(p.last_output)

\* Mutant: a gated call returns None instead of the held output
PID_call_gatedNone(p, input, dt) ==
    IF ~p.auto_mode THEN [pid |-> p, out |-> p.last_output, raised |-> "none"]
    ELSE IF dt <= 0 THEN [pid |-> p, out |-> None, raised |-> "ValueError"]
    ELSE IF Gated(p, dt) THEN [pid |-> p, out |-> None, raised |-> "none"]
    ELSE LET error == p.setpoint - input
             prop == p.Kp * error
             integ == clamp(p.integral + IntegralStep(p, error, dt),
                            p.min_output, p.max_output)
             output == clamp(prop + integ, p.min_output, p.max_output)
         IN  [pid |-> [p EXCEPT !.proportional = prop,
                                !.integral = integ,
                                !.last_output = Some(output)],
              out |-> Some(output), raised |-> "none"]

\* Mutant: the integral is not clamped to the limits (no anti-windup)
PID_call_noAntiWindup(p, input, dt) ==
    IF ~p.auto_mode THEN [pid |-> p, out |-> p.last_output, raised |-> "none"]
    ELSE IF dt <= 0 THEN [pid |-> p, out |-> None, raised |-> "ValueError"]
    ELSE IF Gated(p, dt) THEN [pid |-> p, out |-> p.last_output, raised |-> "none"]
    ELSE LET error == p.setpoint - input
             prop == p.Kp * error
             integ == p.integral + IntegralStep(p, error, dt)
             output == clamp(prop + integ, p.min_output, p.max_output)
         IN  [pid |-> [p EXCEPT !.proportional = prop,
                                !.integral = integ,
                                !.last_output = Some(output)],
              out |-> Some(output), raised |-> "none"]

\* Mutant: a dt that is not positive is not rejected
PID_call_noDtCheck(p, input, dt) ==
    IF ~p.auto_mode THEN [pid |-> p, out |-> p.last_output, raised |-> "none"]
    ELSE IF Gated(p, dt) THEN [pid |-> p, out |-> p.last_output, raised |-> "none"]
    ELSE LET error == p.setpoint - input
             prop == p.Kp * error
             integ == clamp(p.integral + IntegralStep(p, error, dt),
                            p.min_output, p.max_output)
             output == clamp(prop + integ, p.min_output, p.max_output)
         IN  [pid |-> [p EXCEPT !.proportional = prop,
                                !.integral = integ,
                                !.last_output = Some(output)],
              out |-> Some(output), raised |-> "none"]

\* Mutant: the sum of the terms is returned without clamping
PID_call_noOutputClamp(p, input, dt) ==
    IF ~p.auto_mode THEN [pid |-> p, out |-> p.last_output, raised |-> "none"]
    ELSE IF dt <= 0 THEN [pid |-> p, out |-> None, raised |-> "ValueError"]
    ELSE IF Gated(p, dt) THEN [pid |-> p, out |-> p.last_output, raised |-> "none"]
    ELSE LET error == p.setpoint - input
             prop == p.Kp * error
             integ == clamp(p.integral + IntegralStep(p, error, dt),
                            p.min_output, p.max_output)
             output == prop + integ
         IN  [pid |-> [p EXCEPT !.proportional = prop,
                                !.integral = integ,
                                !.last_output = Some(output)],
              out |-> Some(output), raised |-> "none"]

\* Mutant: the output is the proportional term alone
PID_call_proportionalOnly(p, input, dt) ==
    IF ~p.auto_mode THEN [pid |-> p, out |-> p.last_output, raised |-> "none"]
    ELSE IF dt <= 0 THEN [pid |-> p, out |-> None, raised |-> "ValueError"]
    ELSE IF Gated(p, dt) THEN [pid |-> p, out |-> p.last_output, raised |-> "none"]
    ELSE LET error == p.setpoint - input
             prop == p.Kp * error
             integ == clamp(p.integral + IntegralStep(p, error, dt),
                            p.min_output, p.max_output)
             output == clamp(prop, p.min_output, p.max_output)
         IN  [pid |-> [p EXCEPT !.proportional = prop,
                                !.integral = integ,
                                !.last_output = Some(output)],
              out |-> Some(output), raised |-> "none"]

\* PID.__call__(input_, dt): the PID object afterwards, the value returned and
\* the exception raised ("none" when it returns): an explicit dt <= 0 is refused
PID_call(p, input, dt) ==
    IF ~p.auto_mode THEN [pid |-> p, out |-> p.last_output, raised |-> "none"]
    ELSE IF dt <= 0 THEN [pid |-> p, out |-> None, raised |-> "ValueError"]
    ELSE IF Gated(p, dt) THEN [pid |-> p, out |-> p.last_output, raised |-> "none"]
    ELSE LET error == p.setpoint - input
             prop == p.Kp * error
             integ == clamp(p.integral + IntegralStep(p, error, dt),
                            p.min_output, p.max_output)
             output == clamp(prop + integ, p.min_output, p.max_output)
         IN  [pid |-> [p EXCEPT !.proportional = prop,
                                !.integral = integ,
                                !.last_output = Some(output)],
              out |-> Some(output), raised |-> "none"]

(***************************************************************************)
(* PIController                                                            *)
(***************************************************************************)

\* hvac_to_pid_gains raises ZeroDivisionError: 100.0 / proportional_band or
\* kp / (integral_time_min * 60.0) divides by zero
ZeroDivision(pb, it) == pb = 0 \/ it = 0

\* Mutant: the integral time is taken in seconds instead of minutes
hvac_to_pid_gains_noSeconds(pb, it) ==
    LET kp == Pct(100) \div pb
    IN  [kp |-> kp, ki |-> (kp * KiDen) \div it]

hvac_to_pid_gains(pb, it) ==
    LET kp == Pct(100) \div pb
    IN  [kp |-> kp, ki |-> (kp * KiDen) \div (it * 60)]

apply_sign(p, cooling) ==
    IF cooling
    THEN [p EXCEPT !.Kp = -Abs(p.Kp), !.Ki = -Abs(p.Ki)]
    ELSE [p EXCEPT !.Kp = Abs(p.Kp), !.Ki = Abs(p.Ki)]

get_integral_term == pid.integral

NoResult == [output |-> 0, deviation |-> 0, p_term |-> 0, i_term |-> 0, gated |-> FALSE,
             raised |-> "none"]

\* The latest operation raised exception e instead of returning
Raised(e) == [NoResult EXCEPT !.raised = e]

\* PID.__call__(input_) with dt omitted: dt is the wall-clock time elapsed
\* since the last call, or 1e-16 s when none has elapsed.  1e-16 s is below
\* every sample time, and the integral it adds is below the resolution of
\* the fixed-point values.
PID_call_clock(p, input, elapsed) ==
    IF elapsed > 0 THEN PID_call(p, input, elapsed)
    ELSE IF ~p.auto_mode \/ ~IsNone(p.last_output)
         THEN [pid |-> p, out |-> p.last_output, raised |-> "none"]
         ELSE LET error == p.setpoint - input
                  prop == p.Kp * error
                  integ == clamp(p.integral, p.min_output, p.max_output)
                  output == clamp(prop + integ, p.min_output, p.max_output)
              IN  [pid |-> [p EXCEPT !.proportional = prop,
                                     !.integral = integ,
                                     !.last_output = Some(output)],
                   out |-> Some(output), raised |-> "none"]

\* PIController.__init__: the exception it ends with, "none" when it returns
ConstructOutcome(pb, it, lo, hi) ==
    IF ZeroDivision(pb, it) THEN "ZeroDivisionError"
    ELSE IF PID_limits_rejected(lo, hi) THEN "ValueError"
    ELSE "none"

\* PIController.__init__: the PID object it builds
ConstructPid(pb, it, lo, hi, st, sp, cooling) ==
    LET g == hvac_to_pid_gains(pb, it)
        p0 == PID_init(g.kp, g.ki, sp, st, lo, hi)
    IN  IF cooling THEN apply_sign(p0, cooling) ELSE p0

\* PIController.__init__
Construct(pb, it, lo, hi, st, sp, cooling) ==
    /\ pid = ConstructPid(pb, it, lo, hi, st, sp, cooling)
    /\ is_cooling = cooling
    /\ proportional_band = pb
    /\ integral_time_min = it

\* No integration is set up around the coordinator
NoIntegration ==
    /\ setup = "none"
    /\ options = None
    /\ merged_config = None
    /\ runtime_data = None
    /\ reloaded = "none"
    /\ flow = None

\* The controller on its own: no coordinator drives it
NoCoordinator ==
    /\ entry = None
    /\ fault_cycles = 0
    /\ last_good_output = None
    /\ last_data = None
    /\ last_applied = None
    /\ data = None
    /\ written = <<>>
    /\ pi_calls = <<>>
    /\ cycle = "none"
    /\ NoIntegration

Init ==
    /\ NoCoordinator
    /\ \E pb \in PropBands, it \in IntegralTimes, lim \in Limits,
          st \in SampleTimes, sp \in Setpoints, cooling \in BOOLEAN :
            Construct(pb, it, lim[1], lim[2], st, sp, cooling)
    /\ result = NoResult
    /\ lastOp = "init"

\* Mutant: the mode switch flips the gains but keeps the integral
set_cooling_noReset(v) ==
    /\ IF v # is_cooling
       THEN /\ is_cooling' = v
            /\ pid' = apply_sign(pid, v)
       ELSE UNCHANGED <<pid, is_cooling>>
    /\ lastOp' = (IF v # is_cooling THEN "set_cooling" ELSE "set_cooling_noop")
    /\ result' = NoResult
    /\ UNCHANGED <<proportional_band, integral_time_min>>

\* Mutant: set_cooling resets also when the mode is unchanged
set_cooling_always(v) ==
    /\ is_cooling' = v
    /\ pid' = apply_sign(PID_reset(pid), v)
    /\ lastOp' = (IF v # is_cooling THEN "set_cooling" ELSE "set_cooling_noop")
    /\ result' = NoResult
    /\ UNCHANGED <<proportional_band, integral_time_min>>

set_cooling(v) ==
    /\ IF v # is_cooling
       THEN /\ is_cooling' = v
            /\ pid' = apply_sign(PID_reset(pid), v)
       ELSE UNCHANGED <<pid, is_cooling>>
    /\ lastOp' = (IF v # is_cooling THEN "set_cooling" ELSE "set_cooling_noop")
    /\ result' = NoResult
    /\ UNCHANGED <<proportional_band, integral_time_min>>

\* Mutant: the deviation is reported as current - setpoint in cooling mode
update_flipCooling(current_temp, dt) ==
    LET r == PID_call(pid, current_temp, dt)
        output == IF IsNone(r.out) THEN 0 ELSE Val(r.out)
    IN  /\ pid' = r.pid
        /\ result' = IF r.raised # "none" THEN Raised(r.raised)
                      ELSE [output |-> output,
                            deviation |-> IF is_cooling
                                          THEN current_temp - r.pid.setpoint
                                          ELSE r.pid.setpoint - current_temp,
                            p_term |-> r.pid.proportional,
                            i_term |-> r.pid.integral,
                            gated |-> Gated(pid, dt),
                            raised |-> "none"]
        /\ lastOp' = "update"
        /\ UNCHANGED <<is_cooling, proportional_band, integral_time_min>>

update(current_temp, dt) ==
    LET r == PID_call(pid, current_temp, dt)
        output == IF IsNone(r.out) THEN 0 ELSE Val(r.out)
    IN  /\ pid' = r.pid
        /\ result' = IF r.raised # "none" THEN Raised(r.raised)
                      ELSE [output |-> output,
                            deviation |-> r.pid.setpoint - current_temp,
                            p_term |-> r.pid.proportional,
                            i_term |-> r.pid.integral,
                            gated |-> Gated(pid, dt),
                            raised |-> "none"]
        /\ lastOp' = "update"
        /\ UNCHANGED <<is_cooling, proportional_band, integral_time_min>>

\* PIController.update(current_temp) with dt omitted, as the coordinator
\* calls it; elapsed is the wall-clock time since the last call
update_now(current_temp, elapsed) ==
    LET r == PID_call_clock(pid, current_temp, elapsed)
        output == IF IsNone(r.out) THEN 0 ELSE Val(r.out)
    IN  /\ pid' = r.pid
        /\ result' = [output |-> output,
                       deviation |-> r.pid.setpoint - current_temp,
                       p_term |-> r.pid.proportional,
                       i_term |-> r.pid.integral,
                       gated |-> IF elapsed > 0 THEN Gated(pid, elapsed)
                                 ELSE ~IsNone(pid.last_output),
                       raised |-> "none"]
        /\ lastOp' = "update_now"
        /\ UNCHANGED <<is_cooling, proportional_band, integral_time_min>>

\* Mutant: a new setpoint also resets the controller
set_target_reset(target) ==
    /\ pid' = [PID_reset(pid) EXCEPT !.setpoint = target]
    /\ lastOp' = "set_target"
    /\ result' = NoResult
    /\ UNCHANGED <<is_cooling, proportional_band, integral_time_min>>

set_target(target) ==
    /\ pid' = [pid EXCEPT !.setpoint = target]
    /\ lastOp' = "set_target"
    /\ result' = NoResult
    /\ UNCHANGED <<is_cooling, proportional_band, integral_time_min>>

\* Mutant: a tuning change also resets the controller
update_tunings_reset(pb, it) ==
    LET g == hvac_to_pid_gains(pb, it)
    IN  /\ proportional_band' = pb
        /\ integral_time_min' = it
        /\ pid' = apply_sign(PID_reset([pid EXCEPT !.Kp = g.kp, !.Ki = g.ki]), is_cooling)
        /\ lastOp' = "update_tunings"
        /\ result' = NoResult
        /\ UNCHANGED is_cooling

\* Mutant: the sign convention is not re-applied after a tuning change
update_tunings_noSign(pb, it) ==
    LET g == hvac_to_pid_gains(pb, it)
    IN  /\ proportional_band' = pb
        /\ integral_time_min' = it
        /\ pid' = [pid EXCEPT !.Kp = g.kp, !.Ki = g.ki]
        /\ lastOp' = "update_tunings"
        /\ result' = NoResult
        /\ UNCHANGED is_cooling

update_tunings(pb, it) ==
    /\ proportional_band' = pb
    /\ integral_time_min' = it
    /\ IF ZeroDivision(pb, it)
       THEN /\ pid' = pid
            /\ result' = Raised("ZeroDivisionError")
       ELSE LET g == hvac_to_pid_gains(pb, it)
            IN  /\ pid' = apply_sign([pid EXCEPT !.Kp = g.kp, !.Ki = g.ki], is_cooling)
                /\ result' = NoResult
    /\ lastOp' = "update_tunings"
    /\ UNCHANGED is_cooling

update_output_limits(lo, hi) ==
    /\ IF PID_limits_rejected(lo, hi)
       THEN /\ pid' = pid
            /\ result' = Raised("ValueError")
       ELSE /\ pid' = PID_set_output_limits(pid, lo, hi)
            /\ result' = NoResult
    /\ lastOp' = "update_output_limits"
    /\ UNCHANGED <<is_cooling, proportional_band, integral_time_min>>

update_sample_time(st) ==
    /\ pid' = [pid EXCEPT !.sample_time = st]
    /\ lastOp' = "update_sample_time"
    /\ result' = NoResult
    /\ UNCHANGED <<is_cooling, proportional_band, integral_time_min>>

\* Mutant: auto mode is not switched off first, so switching it on does nothing
restore_integral_term_noDisable(value) ==
    /\ pid' = PID_set_auto_mode(pid, TRUE, Some(value))
    /\ lastOp' = "restore_integral_term"
    /\ result' = NoResult
    /\ UNCHANGED <<is_cooling, proportional_band, integral_time_min>>

\* Mutant: auto mode is left on, so the value is not taken
RestorePid_noDisable(p, value) == PID_set_auto_mode(p, TRUE, Some(value))

\* PIController.restore_integral_term: the PID object afterwards
RestorePid(p, value) ==
    PID_set_auto_mode(PID_set_auto_mode(p, FALSE, None), TRUE, Some(value))

restore_integral_term(value) ==
    /\ pid' = RestorePid(pid, value)
    /\ lastOp' = "restore_integral_term"
    /\ result' = NoResult
    /\ UNCHANGED <<is_cooling, proportional_band, integral_time_min>>

reset ==
    /\ pid' = apply_sign(PID_reset(pid), is_cooling)
    /\ lastOp' = "reset"
    /\ result' = NoResult
    /\ UNCHANGED <<is_cooling, proportional_band, integral_time_min>>

(***************************************************************************)
(* DataUpdateCoordinator                                                   *)
(***************************************************************************)
SENSOR_FAULT_GRACE_PERIOD_SECONDS == 1800
MaxFaultCycles == 5

Max(a, b) == IF a > b THEN a ELSE b

\* The states the temperature sensor entity can be found in: no state object
\* ("missing"), the two unavailable states, a text that is no number, and
\* texts that float() accepts
SensorStates == {"missing", "unavailable", "unknown", "warm", "nan", "15", "25"}
_UNAVAILABLE_STATES == {"unavailable", "unknown"}

\* float(text): the number, or None where it raises ValueError
float(text) ==
    CASE text = "15" -> Some(15)
      [] text = "25" -> Some(25)
      [] text = "nan" -> Some(NaN)
      [] OTHER -> None

\* HomeAssistantInterface._get_float_state
get_float_state(state) ==
    IF state = "missing" \/ state \in _UNAVAILABLE_STATES THEN None
    ELSE float(state)

\* The climate entity: its state (the HVAC mode) and its hvac_action attribute
Climates ==
    {[state |-> "unavailable", hvac_action |-> "idle"],
     [state |-> "off", hvac_action |-> "off"],
     [state |-> "heat_cool", hvac_action |-> "heating"],
     [state |-> "heat_cool", hvac_action |-> "cooling"]}

\* HomeAssistantInterface.get_climate_hvac_mode
get_climate_hvac_mode(state) ==
    IF state \in _UNAVAILABLE_STATES THEN None ELSE Some(state)

\* HomeAssistantInterface.get_climate_hvac_action (_get_str_attribute)
get_climate_hvac_action(state, action) ==
    IF state \in _UNAVAILABLE_STATES THEN None ELSE Some(action)

\* The target temperature the configured source yields (None: the external
\* source is unavailable)
TargetTemps == {None, Some(25)}

\* Wall-clock seconds since the PID last computed
CycleElapsed == {600}

\* Option values the number entities accept (number.py)
UpdateIntervals == {450, 600}
OptionLimits == {0, 50, 100}

\* The controller object self._pi as a value
ThePi ==
    [pid |-> pid, is_cooling |-> is_cooling,
     proportional_band |-> proportional_band,
     integral_time_min |-> integral_time_min]

\* Mutant: set_cooling on a controller value resets whatever the mode was
pi_set_cooling_always(c, v) ==
    [c EXCEPT !.is_cooling = v, !.pid = apply_sign(PID_reset(c.pid), v)]

\* PIController.set_cooling on a controller value
pi_set_cooling(c, v) ==
    IF v # c.is_cooling
    THEN [c EXCEPT !.is_cooling = v, !.pid = apply_sign(PID_reset(c.pid), v)]
    ELSE c

\* PIController.set_target on a controller value
pi_set_target(c, target) == [c EXCEPT !.pid.setpoint = target]

\* PIController.update_tunings on a controller value
pi_update_tunings(c, pb, it) ==
    LET g == hvac_to_pid_gains(pb, it)
    IN  [c EXCEPT !.proportional_band = pb,
                  !.integral_time_min = it,
                  !.pid = apply_sign([c.pid EXCEPT !.Kp = g.kp, !.Ki = g.ki],
                                     c.is_cooling)]

\* PIController.update_output_limits on a controller value (when the limits
\* setter accepts them)
pi_update_output_limits(c, lo, hi) ==
    [c EXCEPT !.pid = PID_set_output_limits(c.pid, lo, hi)]

\* Mutant: update_sample_time leaves the controller's sample time alone
pi_update_sample_time_keep(c, st) == c

\* PIController.update_sample_time on a controller value
pi_update_sample_time(c, st) == [c EXCEPT !.pid.sample_time = st]

\* PID.__call__(input_) where the input or the accumulated integral can be
\* NaN: error, proportional term, integral and output are then NaN (a NaN
\* integral stays NaN through the clamp); the sample-time gate is as before
PID_call_float(p, input, elapsed) ==
    IF input # NaN /\ p.integral # NaN THEN PID_call_clock(p, input, elapsed)
    ELSE IF ~p.auto_mode \/ (elapsed < p.sample_time /\ ~IsNone(p.last_output))
         THEN [pid |-> p, out |-> p.last_output, raised |-> "none"]
         ELSE [pid |-> [p EXCEPT !.proportional =
                                     IF input = NaN THEN NaN
                                     ELSE p.Kp * (p.setpoint - input),
                                 !.integral = NaN,
                                 !.last_output = Some(NaN)],
               out |-> Some(NaN), raised |-> "none"]

\* PIController.update(current_temp) on a controller value: the controller
\* afterwards and the PIResult
pi_update(c, current_temp, elapsed) ==
    LET r == PID_call_float(c.pid, current_temp, elapsed)
    IN  [pi |-> [c EXCEPT !.pid = r.pid],
         result |-> [output |-> IF IsNone(r.out) THEN 0 ELSE Val(r.out),
                     deviation |-> IF current_temp = NaN THEN NaN
                                   ELSE r.pid.setpoint - current_temp,
                     p_term |-> r.pid.proportional,
                     i_term |-> r.pid.integral,
                     gated |-> IF elapsed > 0 THEN Gated(c.pid, elapsed)
                               ELSE ~IsNone(c.pid.last_output),
                     raised |-> "none"]]

\* DataUpdateCoordinator._async_update_data, step 10: the CoordinatorData
\* published for a cycle that ran the PI controller
CoordinatorData(r, current_temp, target_temp) ==
    [output |-> r.output, deviation |-> r.deviation,
     p_term |-> r.p_term, i_term |-> r.i_term,
     current_temp |-> current_temp, target_temp |-> target_temp,
     sensor_available |-> TRUE]

\* DataUpdateCoordinator._shutdown_result
shutdown_result(current_temp, target_temp, sensor_available) ==
    [output |-> Some(0), deviation |-> None, p_term |-> None, i_term |-> None,
     current_temp |-> current_temp, target_temp |-> target_temp,
     sensor_available |-> sensor_available]

\* DataUpdateCoordinator._unknown_result
unknown_result(current_temp, target_temp, sensor_available) ==
    [output |-> None, deviation |-> None, p_term |-> None, i_term |-> None,
     current_temp |-> current_temp, target_temp |-> target_temp,
     sensor_available |-> sensor_available]

\* Mutant: a paused cycle reports output 0 whatever came before
paused_result_shutdown == shutdown_result(None, None, TRUE)

\* DataUpdateCoordinator._paused_result
paused_result ==
    IF ~IsNone(last_data) THEN Val(last_data)
    ELSE unknown_result(None, None, TRUE)

\* Mutant: nothing is ever written to the output entity
async_write_output_never(output) == <<>>

\* DataUpdateCoordinator._async_write_output: the calls of set_output it makes
async_write_output(output) ==
    IF entry.output_entity THEN <<output>> ELSE <<>>

\* DataUpdateCoordinator._read_current_temp, for a configured temp_sensor
read_current_temp(env) == get_float_state(env.sensor)

\* DataUpdateCoordinator._determine_cooling
determine_cooling(env) ==
    IF entry.operating_mode = "cool" THEN TRUE
    ELSE IF entry.operating_mode = "heat" THEN FALSE
    ELSE /\ entry.climate_entity
         /\ get_climate_hvac_action(env.climate.state, env.climate.hvac_action)
                = Some("cooling")

\* Mutant: the grace period is one cycle longer
grace_cycles_oneMore(rt) ==
    Max(1, SENSOR_FAULT_GRACE_PERIOD_SECONDS \div Max(rt.update_interval, 1)) + 1

\* max(1, SENSOR_FAULT_GRACE_PERIOD_SECONDS // max(update_interval, 1))
grace_cycles(rt) ==
    Max(1, SENSOR_FAULT_GRACE_PERIOD_SECONDS \div Max(rt.update_interval, 1))

\* DataUpdateCoordinator._apply_tuning_changes on controller value c: the
\* controller and the last-applied values afterwards, the controller methods
\* called, and the exception that ends it ("none" when it returns).  The
\* proportional band and integral time of the options are positive.
apply_tuning_changes(c, rt) ==
    LET tune == \/ rt.proportional_band # last_applied.prop_band
                \/ rt.integral_time # last_applied.int_time
        lim == \/ rt.output_min # last_applied.output_min
               \/ rt.output_max # last_applied.output_max
        rejected == lim /\ PID_limits_rejected(Pct(rt.output_min), Pct(rt.output_max))
        intv == ~rejected /\ rt.update_interval # last_applied.update_interval
        c1 == IF tune
              THEN pi_update_tunings(c, rt.proportional_band, rt.integral_time)
              ELSE c
        a1 == IF tune
              THEN [last_applied EXCEPT !.prop_band = rt.proportional_band,
                                        !.int_time = rt.integral_time]
              ELSE last_applied
        c2 == IF lim /\ ~rejected
              THEN pi_update_output_limits(c1, Pct(rt.output_min), Pct(rt.output_max))
              ELSE c1
        a2 == IF lim /\ ~rejected
              THEN [a1 EXCEPT !.output_min = rt.output_min,
                              !.output_max = rt.output_max]
              ELSE a1
        c3 == IF intv THEN pi_update_sample_time(c2, rt.update_interval) ELSE c2
        a3 == IF intv THEN [a2 EXCEPT !.update_interval = rt.update_interval] ELSE a2
    IN  [pi |-> c3, applied |-> a3,
         calls |-> (IF tune THEN <<"update_tunings">> ELSE <<>>)
                   \o (IF lim THEN <<"update_output_limits">> ELSE <<>>)
                   \o (IF intv THEN <<"update_sample_time">> ELSE <<>>),
         raised |-> IF rejected THEN "ValueError" ELSE "none"]

\* What a cycle that changes nothing leaves behind
Untouched ==
    [pi |-> ThePi, fault_cycles |-> fault_cycles,
     last_good_output |-> last_good_output, last_data |-> last_data,
     last_applied |-> last_applied, data |-> data, written |-> <<>>,
     calls |-> <<>>, cycle |-> "none", result |-> None]

\* DataUpdateCoordinator._async_handle_sensor_fault, after the controller
\* calls of steps 3 and 5 gave controller value c
async_handle_sensor_fault(c, calls, rt, target_temp) ==
    LET shutdown == [Untouched EXCEPT
                        !.pi = c, !.calls = calls,
                        !.written = async_write_output(0),
                        !.data = Some(shutdown_result(None, target_temp, FALSE))]
    IN  IF entry.sensor_fault_mode = "hold" /\ ~IsNone(last_good_output)
        THEN IF fault_cycles + 1 <= grace_cycles(rt)
             THEN [Untouched EXCEPT
                      !.pi = c, !.calls = calls,
                      !.fault_cycles = fault_cycles + 1,
                      !.data = Some([output |-> last_good_output,
                                     deviation |-> None, p_term |-> None,
                                     i_term |-> None, current_temp |-> None,
                                     target_temp |-> target_temp,
                                     sensor_available |-> FALSE]),
                      !.cycle = "fault_hold"]
             ELSE [shutdown EXCEPT !.fault_cycles = fault_cycles + 1,
                                   !.cycle = "fault_grace_exceeded"]
        ELSE IF entry.sensor_fault_mode = "hold"
        THEN [Untouched EXCEPT
                 !.pi = c, !.calls = calls,
                 !.data = Some(unknown_result(None, target_temp, FALSE)),
                 !.cycle = "fault_unknown"]
        ELSE [shutdown EXCEPT !.cycle = "fault_shutdown"]

\* Mutant: a paused cycle writes 0 to the output entity
paused_cycle_writes ==
    [Untouched EXCEPT !.data = Some(paused_result), !.cycle = "paused",
                      !.written = async_write_output(0)]

\* _async_update_data, step 1b: the enabled option is off
paused_cycle ==
    [Untouched EXCEPT !.data = Some(paused_result), !.cycle = "paused"]

\* Mutant: an auto-disabled cycle also resets the controller
auto_disabled_cycle_resets ==
    [Untouched EXCEPT !.pi = [ThePi EXCEPT !.pid = PID_reset(pid)],
                      !.written = async_write_output(0),
                      !.data = Some(shutdown_result(None, None, TRUE)),
                      !.cycle = "auto_disabled"]

\* _async_update_data, step 2: the climate entity is off and
\* auto_disable_on_hvac_off is set
auto_disabled_cycle ==
    [Untouched EXCEPT !.written = async_write_output(0),
                      !.data = Some(shutdown_result(None, None, TRUE)),
                      !.cycle = "auto_disabled"]

\* DataUpdateCoordinator._async_update_data with the resolved runtime options
\* rt, in environment env: what the cycle leaves behind
CycleOutcome(rt, env) ==
    IF ~rt.enabled
    THEN paused_cycle
    ELSE IF /\ entry.climate_entity
            /\ rt.auto_disable_on_hvac_off
            /\ get_climate_hvac_mode(env.climate.state) = Some("off")
    THEN auto_disabled_cycle
    ELSE
    LET c1 == pi_set_cooling(ThePi, determine_cooling(env))
        current_temp == read_current_temp(env)
        target_temp == env.target
        c2 == IF IsNone(target_temp) THEN c1 ELSE pi_set_target(c1, Val(target_temp))
        calls2 == <<"set_cooling">>
                  \o (IF IsNone(target_temp) THEN <<>> ELSE <<"set_target">>)
    IN  IF IsNone(current_temp)
        THEN async_handle_sensor_fault(c2, calls2, rt, target_temp)
        ELSE
        LET t == apply_tuning_changes(c2, rt)
            u == pi_update(t.pi, Val(current_temp), env.elapsed)
        IN  IF t.raised # "none"
            THEN [Untouched EXCEPT
                     !.pi = t.pi, !.calls = calls2 \o t.calls,
                     !.fault_cycles = 0, !.last_applied = t.applied,
                     !.result = Some(Raised(t.raised)),
                     !.cycle = "raised"]
            ELSE [Untouched EXCEPT
                     !.pi = u.pi, !.calls = calls2 \o t.calls \o <<"update">>,
                     !.fault_cycles = 0, !.last_applied = t.applied,
                     !.last_good_output = Some(u.result.output),
                     !.written = async_write_output(u.result.output),
                     !.data = Some(CoordinatorData(
                                  [output |-> Some(u.result.output),
                                   deviation |-> Some(u.result.deviation),
                                   p_term |-> Some(u.result.p_term),
                                   i_term |-> Some(u.result.i_term)],
                                  current_temp, target_temp)),
                     !.last_data = Some(CoordinatorData(
                                  [output |-> Some(u.result.output),
                                   deviation |-> Some(u.result.deviation),
                                   p_term |-> Some(u.result.p_term),
                                   i_term |-> Some(u.result.i_term)],
                                  current_temp, target_temp)),
                     !.result = Some(u.result),
                     !.cycle = "normal"]

\* The name the latest controller call of a cycle leaves in lastOp
LastCall(o) ==
    LET l == o.calls[Len(o.calls)]
    IN  IF l = "update" THEN "update_now"
        ELSE IF l = "set_cooling" /\ o.pi.is_cooling = is_cooling
        THEN "set_cooling_noop"
        ELSE l

\* One update cycle of the coordinator; the fault counter is capped
async_update_data(rt, env) ==
    \E o \in {CycleOutcome(rt, env)} :
        /\ o.fault_cycles <= MaxFaultCycles
        /\ pid' = o.pi.pid
        /\ is_cooling' = o.pi.is_cooling
        /\ proportional_band' = o.pi.proportional_band
        /\ integral_time_min' = o.pi.integral_time_min
        /\ result' = IF ~IsNone(o.result) THEN Val(o.result)
                      ELSE IF o.calls # <<>> THEN NoResult
                      ELSE result
        /\ lastOp' = IF o.calls = <<>> THEN lastOp ELSE LastCall(o)
        /\ fault_cycles' = o.fault_cycles
        /\ last_good_output' = o.last_good_output
        /\ last_data' = o.last_data
        /\ last_applied' = o.last_applied
        /\ data' = o.data
        /\ written' = o.written
        /\ pi_calls' = o.calls
        /\ cycle' = o.cycle
        /\ UNCHANGED entry

Next ==
    \/ \E v \in BOOLEAN : set_cooling(v) /\ UNCHANGED coordVars
    \/ \E t \in Temps, dt \in Dts : update(t, dt) /\ UNCHANGED coordVars
    \/ \E sp \in Setpoints : set_target(sp) /\ UNCHANGED coordVars
    \/ \E pb \in PropBands, it \in IntegralTimes : update_tunings(pb, it) /\ UNCHANGED coordVars
    \/ \E lim \in Limits : update_output_limits(lim[1], lim[2]) /\ UNCHANGED coordVars
    \/ \E st \in SampleTimes : update_sample_time(st) /\ UNCHANGED coordVars
    \/ \E v \in RestoreValues : restore_integral_term(v) /\ UNCHANGED coordVars
    \/ reset /\ UNCHANGED coordVars

Spec == Init /\ [][Next]_vars

(***************************************************************************)
(* Helpers of the properties                                               *)
(***************************************************************************)
InLimits(x) == pid.min_output <= x /\ x <= pid.max_output

\* x brought into [lo, hi]
Bounded(x, lo, hi) == IF x < lo THEN lo ELSE IF x > hi THEN hi ELSE x

Sign == IF is_cooling THEN -1 ELSE 1

C2_IntegralInLimits == InLimits(get_integral_term)

\* a restore that had to be brought into the limits
C2_Witness ==
    /\ lastOp = "restore_integral_term"
    /\ get_integral_term = pid.max_output
    /\ pid.max_output < Pct(100)

(***************************************************************************)
(* C3: an update that is not gated computes error = setpoint - current,    *)
(* p_term = gain_p * error, i_term = integral + gain_i * error * dt        *)
(* brought into the limits, output = p_term + i_term brought into the      *)
(* limits; it commits i_term and output and returns the four values.       *)
(***************************************************************************)
C3_EffectiveUpdate ==
    [][\A t \in Temps, dt \in Dts :
         (update(t, dt) /\ ~Gated(pid, dt)) =>
            LET error == pid.setpoint - t
                p_term == pid.Kp * error
                i_term == Bounded(pid.integral + (pid.Ki * error * dt) \div KiDen,
                                  pid.min_output, pid.max_output)
                output == Bounded(p_term + i_term, pid.min_output, pid.max_output)
            IN  /\ result'.deviation = error
                /\ result'.p_term = p_term
                /\ result'.i_term = i_term
                /\ result'.output = output
                /\ pid'.integral = i_term
                /\ pid'.last_output = Some(output)]_vars

\* an effective update whose integral and output are both strictly inside the limits
C3_Witness ==
    /\ lastOp = "update"
    /\ ~result.gated
    /\ result.i_term > pid.min_output /\ result.i_term < pid.max_output
    /\ result.output > pid.min_output /\ result.output < pid.max_output
    /\ result.p_term # 0

C5_GainsMatchTunings ==
    /\ pid.Kp * proportional_band = Sign * Pct(100)
    /\ pid.Ki * integral_time_min * 60 = pid.Kp * KiDen
    /\ (is_cooling => pid.Kp < 0 /\ pid.Ki < 0)
    /\ (~is_cooling => pid.Kp > 0 /\ pid.Ki > 0)

\* cooling-mode gains after a retuning
C5_Witness ==
    /\ lastOp = "update_tunings"
    /\ is_cooling
    /\ pid.Kp = -Pct(4)
    /\ 30 * pid.Ki = -Pct(1) * KiDen

(***************************************************************************)
(* C6: set_cooling(v) with v different from the current mode resets the    *)
(* integral: get_integral_term() returns 0 right afterwards, whatever the  *)
(* output limits are; the mode changes only through set_cooling.           *)
(* As stated (the integral is 0 after every mode change):                  *)
(***************************************************************************)
C6_Original ==
    [][is_cooling' # is_cooling =>
          (lastOp' = "set_cooling" /\ get_integral_term' = 0)]_vars

\* C6 as amended: after a mode change the integral is 0 brought into the
\* output limits (0 when output_min <= 0 <= output_max, output_min when
\* output_min > 0, output_max when output_max < 0); the mode changes only
\* through set_cooling.
C6_ModeSwitchResetsIntegral ==
    [][is_cooling' # is_cooling =>
          /\ lastOp' = "set_cooling"
          /\ get_integral_term' = Bounded(0, pid.min_output, pid.max_output)
          /\ pid'.min_output = pid.min_output
          /\ pid'.max_output = pid.max_output]_vars

\* a mode change with output_min > 0 that leaves the integral at output_min
C6_Witness ==
    /\ lastOp = "set_cooling"
    /\ pid.min_output > 0
    /\ get_integral_term = pid.min_output

(***************************************************************************)
(* C7: set_cooling(v) with v equal to the current mode changes nothing:    *)
(* gains, integral, setpoint, limits, held output and gating state stay.   *)
(***************************************************************************)
C7_SameModeNoOp ==
    [][\A v \in BOOLEAN :
         (set_cooling(v) /\ v = is_cooling) =>
            UNCHANGED <<pid, is_cooling, proportional_band, integral_time_min>>]_vars

\* a same-mode set_cooling on a controller that holds integral action and an output
C7_Witness ==
    /\ lastOp = "set_cooling_noop"
    /\ get_integral_term > pid.min_output
    /\ ~IsNone(pid.last_output)
    /\ pid.proportional # 0

C9_Original ==
    [][\A v \in RestoreValues :
         restore_integral_term(v) => get_integral_term' = v]_vars

\* C9 as amended: restore_integral_term(v) sets the integral accumulator to
\* v brought into the current output limits; it is exactly v when
\* output_min <= v <= output_max.
C9_RestoreClamps ==
    [][\A v \in RestoreValues :
         restore_integral_term(v) =>
            /\ get_integral_term' = Bounded(v, pid.min_output, pid.max_output)
            /\ (pid.min_output <= v /\ v <= pid.max_output =>
                    get_integral_term' = v)]_vars

\* a restore of a value below output_min
C9_Witness ==
    /\ lastOp = "restore_integral_term"
    /\ pid.min_output > 0
    /\ get_integral_term = pid.min_output
    /\ IsNone(pid.last_output)

(***************************************************************************)
(* C10: update_output_limits(min, max) only replaces the clamp bounds; the *)
(* stored integral accumulator is not re-clamped by the call itself.       *)
(* As stated:                                                              *)
(***************************************************************************)
C10_Original ==
    [][\A lim \in Limits :
         update_output_limits(lim[1], lim[2]) =>
            get_integral_term' = get_integral_term]_vars

\* C10 as amended: update_output_limits(min, max) replaces the clamp bounds
\* and at once brings the stored integral accumulator (and the held output)
\* into the new bounds; get_integral_term() right after the call returns the
\* old value only when that value lies within the new bounds.
C10_LimitsReclamp ==
    [][\A lim \in Limits :
         update_output_limits(lim[1], lim[2]) =>
            /\ pid'.min_output = lim[1] /\ pid'.max_output = lim[2]
            /\ get_integral_term' = Bounded(get_integral_term, lim[1], lim[2])
            /\ pid'.last_output =
                 (IF IsNone(pid.last_output) THEN None
                  ELSE Some(Bounded(Val(pid.last_output), lim[1], lim[2])))
            /\ pid'.Kp = pid.Kp /\ pid'.Ki = pid.Ki
            /\ pid'.setpoint = pid.setpoint
            /\ pid'.sample_time = pid.sample_time]_vars

\* limits just changed, with the integral and the held output at the new maximum
\* although the proportional term of the last computation was negative
C10_Witness ==
    /\ lastOp = "update_output_limits"
    /\ get_integral_term = pid.max_output
    /\ pid.last_output = Some(pid.max_output)
    /\ pid.proportional < 0

\* The controller under retuning only: constructed with any representable
\* pair of tuning parameters, then retuned and switched between modes
InitGains ==
    /\ NoCoordinator
    /\ \E pr \in GainPairs, lim \in Limits, st \in SampleTimes,
          sp \in Setpoints, cooling \in BOOLEAN :
            Construct(pr[1], pr[2], lim[1], lim[2], st, sp, cooling)
    /\ result = NoResult
    /\ lastOp = "init"

NextGains ==
    \/ \E pr \in GainPairs : update_tunings(pr[1], pr[2]) /\ UNCHANGED coordVars
    \/ \E v \in BOOLEAN : set_cooling(v) /\ UNCHANGED coordVars

SpecGains == InitGains /\ [][NextGains]_vars

\* The example controller: the heating controller of the unit tests, driven
\* by updates and resets
InitExample ==
    /\ NoCoordinator
    /\ Construct(TEST_PROP_BAND, TEST_INT_TIME, Pct(TEST_OUTPUT_MIN),
                 Pct(TEST_OUTPUT_MAX), TEST_SAMPLE_TIME, TEST_SETPOINT, FALSE)
    /\ result = NoResult
    /\ lastOp = "init"

NextExample ==
    \/ \E t \in ExampleTemps, dt \in ExampleDts : update(t, dt) /\ UNCHANGED coordVars
    \/ reset /\ UNCHANGED coordVars

SpecExample == InitExample /\ [][NextExample]_vars

\* The controller under arguments of any sign: every constructor call that
\* returns, followed by the operations with arguments inside and outside
\* their documented preconditions
InitErr ==
    /\ NoCoordinator
    /\ \E pb \in ErrPropBands, it \in ErrIntegralTimes, lim \in ErrLimits,
          st \in SampleTimes, sp \in Setpoints, cooling \in BOOLEAN :
            /\ ConstructOutcome(pb, it, lim[1], lim[2]) = "none"
            /\ Construct(pb, it, lim[1], lim[2], st, sp, cooling)
    /\ result = NoResult
    /\ lastOp = "init"

NextErr ==
    \/ \E v \in BOOLEAN : set_cooling(v) /\ UNCHANGED coordVars
    \/ \E t \in ErrTemps, dt \in ErrDts : update(t, dt) /\ UNCHANGED coordVars
    \/ \E t \in ErrTemps, e \in Elapsed : update_now(t, e) /\ UNCHANGED coordVars
    \/ \E sp \in Setpoints : set_target(sp) /\ UNCHANGED coordVars
    \/ \E pb \in ErrPropBands, it \in ErrIntegralTimes : update_tunings(pb, it) /\ UNCHANGED coordVars
    \/ \E lim \in ErrLimits : update_output_limits(lim[1], lim[2]) /\ UNCHANGED coordVars
    \/ \E st \in SampleTimes : update_sample_time(st) /\ UNCHANGED coordVars
    \/ \E v \in RestoreValues : restore_integral_term(v) /\ UNCHANGED coordVars
    \/ reset /\ UNCHANGED coordVars

SpecErr == InitErr /\ [][NextErr]_vars

\* The options of the coordinator's specification: tunings and limits stay
\* at the values the entry was set up with
COORD_PROP_BAND == 25
COORD_INT_TIME == 2
COORD_OUTPUT_MIN == 0
COORD_OUTPUT_MAX == 100
COORD_TARGET_TEMP == 20
COORD_UPDATE_INTERVAL == 600

\* The entries: a temperature sensor alone with the controller heating, or
\* with a climate entity that tells whether to heat or to cool
Entries ==
    {e \in [climate_entity : BOOLEAN, operating_mode : {"heat", "heat_cool"},
            output_entity : BOOLEAN, sensor_fault_mode : {"shutdown", "hold"}] :
        e.climate_entity <=> e.operating_mode = "heat_cool"}

\* DataUpdateCoordinator.__init__ for entry e with the given options
CoordinatorInit(e, pb, it, lo, hi, ui) ==
    /\ entry = e
    /\ Construct(pb, it, Pct(lo), Pct(hi), ui, COORD_TARGET_TEMP,
                 e.operating_mode = "cool")
    /\ fault_cycles = 0
    /\ last_good_output = None
    /\ last_data = None
    /\ last_applied = [prop_band |-> pb, int_time |-> it, output_min |-> lo,
                       output_max |-> hi, update_interval |-> ui]
    /\ data = None
    /\ written = <<>>
    /\ pi_calls = <<>>
    /\ cycle = "none"
    /\ result = NoResult
    /\ lastOp = "init"

\* The runtime options of a cycle of the coordinator's specification
CoordOptions ==
    [enabled : BOOLEAN, auto_disable_on_hvac_off : BOOLEAN,
     proportional_band : {COORD_PROP_BAND}, integral_time : {COORD_INT_TIME},
     output_min : {COORD_OUTPUT_MIN}, output_max : {COORD_OUTPUT_MAX},
     update_interval : {COORD_UPDATE_INTERVAL}]

\* The environments of a cycle.  The climate entity is read only when one is
\* configured, and the clock only when the sensor gives a number.
NoClimate == [state |-> "unavailable", hvac_action |-> "idle"]
Envs ==
    [sensor : SensorStates,
     climate : IF entry.climate_entity THEN Climates ELSE {NoClimate},
     target : TargetTemps, elapsed : CycleElapsed]

\* The inputs of the cycles run with the enabled switch off: the sensor is
\* missing or at 25, the target temperature is known or not
PausedInputs ==
    {rt \in CoordOptions : ~rt.enabled /\ rt.auto_disable_on_hvac_off}
    \X [sensor : {"missing", "25"}, climate : {NoClimate},
        target : TargetTemps, elapsed : CycleElapsed]

\* The inputs of a cycle: auto_disable_on_hvac_off is switched off only
\* with the climate entity off, where it matters
CycleInputs ==
    PausedInputs \cup
    {in \in CoordOptions \X Envs :
        /\ in[1].enabled
        /\ ~in[1].auto_disable_on_hvac_off => in[2].climate.state = "off"}

InitCoord ==
    /\ NoIntegration
    /\ \E e \in Entries :
        CoordinatorInit(e, COORD_PROP_BAND, COORD_INT_TIME,
                        COORD_OUTPUT_MIN, COORD_OUTPUT_MAX, COORD_UPDATE_INTERVAL)

NextCoord ==
    \/ \E in \in CycleInputs : async_update_data(in[1], in[2]) /\ UNCHANGED haVars

SpecCoord == InitCoord /\ [][NextCoord]_vars

\* HOLD fault mode under a changing update interval: a temperature sensor
\* that comes and goes, the enabled switch and the interval being operated
HoldEntries ==
    {e \in Entries : ~e.climate_entity /\ e.sensor_fault_mode = "hold"}
HoldOptions ==
    [enabled : BOOLEAN, auto_disable_on_hvac_off : {TRUE},
     proportional_band : {COORD_PROP_BAND}, integral_time : {COORD_INT_TIME},
     output_min : {COORD_OUTPUT_MIN}, output_max : {COORD_OUTPUT_MAX},
     update_interval : UpdateIntervals]
HoldEnvs ==
    [sensor : {"unavailable", "15", "25"}, climate : {NoClimate},
     target : {Some(25)}, elapsed : CycleElapsed]

InitHold ==
    /\ NoIntegration
    /\ \E e \in HoldEntries, ui \in UpdateIntervals :
        CoordinatorInit(e, COORD_PROP_BAND, COORD_INT_TIME,
                        COORD_OUTPUT_MIN, COORD_OUTPUT_MAX, ui)

NextHold ==
    \/ \E rt \in HoldOptions, env \in HoldEnvs : async_update_data(rt, env) /\ UNCHANGED haVars

SpecHold == InitHold /\ [][NextHold]_vars

\* HOLD fault mode with the update interval halved or doubled while the
\* sensor is away: 600 s gives three grace cycles, 300 s gives six
GraceIntervals == {COORD_UPDATE_INTERVAL \div 2, COORD_UPDATE_INTERVAL}
GraceOptions ==
    [enabled : BOOLEAN, auto_disable_on_hvac_off : {TRUE},
     proportional_band : {COORD_PROP_BAND}, integral_time : {COORD_INT_TIME},
     output_min : {COORD_OUTPUT_MIN}, output_max : {COORD_OUTPUT_MAX},
     update_interval : GraceIntervals]

InitGrace ==
    /\ NoIntegration
    /\ \E e \in HoldEntries, ui \in GraceIntervals :
        CoordinatorInit(e, COORD_PROP_BAND, COORD_INT_TIME,
                        COORD_OUTPUT_MIN, COORD_OUTPUT_MAX, ui)

NextGrace ==
    \/ \E rt \in GraceOptions, env \in HoldEnvs : async_update_data(rt, env) /\ UNCHANGED haVars

SpecGrace == InitGrace /\ [][NextGrace]_vars

\* Auto-disable: the climate entity being switched off and on and the
\* auto_disable_on_hvac_off switch being operated, for entries with and
\* without a configured climate entity
AutoOptions ==
    {rt \in CoordOptions : rt.enabled}
AutoEnvs ==
    [sensor : {"unavailable", "15", "25"}, climate : Climates,
     target : {Some(25)}, elapsed : CycleElapsed]

InitAuto == InitCoord

NextAuto ==
    \/ \E rt \in AutoOptions, env \in AutoEnvs : async_update_data(rt, env) /\ UNCHANGED haVars

SpecAuto == InitAuto /\ [][NextAuto]_vars

\* The number entities being operated: each of proportional_band,
\* integral_time, output_min, output_max and update_interval is set on its
\* own to a value of its range, and the entry is set up with whatever the
\* options hold at that time (PIController.__init__ returning)
TuneEntry ==
    [climate_entity |-> FALSE, operating_mode |-> "heat",
     output_entity |-> TRUE, sensor_fault_mode |-> "shutdown"]
TuneOptions ==
    [enabled : {TRUE}, auto_disable_on_hvac_off : {TRUE},
     proportional_band : PropBands, integral_time : IntegralTimes,
     output_min : OptionLimits, output_max : OptionLimits,
     update_interval : UpdateIntervals]
TuneEnvs ==
    [sensor : {"unavailable", "15", "25"}, climate : {NoClimate},
     target : {Some(25)}, elapsed : CycleElapsed]

InitTune ==
    /\ NoIntegration
    /\ \E rt \in TuneOptions :
        /\ ConstructOutcome(rt.proportional_band, rt.integral_time,
                            Pct(rt.output_min), Pct(rt.output_max)) = "none"
        /\ CoordinatorInit(TuneEntry, rt.proportional_band, rt.integral_time,
                           rt.output_min, rt.output_max, rt.update_interval)

NextTune ==
    \/ \E rt \in TuneOptions, env \in TuneEnvs : async_update_data(rt, env) /\ UNCHANGED haVars

SpecTune == InitTune /\ [][NextTune]_vars

\* The tuning options changing between cycles with limits the controller
\* accepts: the upper limit stays where it is, and of proportional band and
\* integral time at most one is away from the value of the coordinator's
\* specification; the sensor gives a temperature or is unavailable
ApplyOptions ==
    {rt \in TuneOptions :
        /\ rt.output_max = COORD_OUTPUT_MAX
        /\ rt.proportional_band = COORD_PROP_BAND \/ rt.integral_time = COORD_INT_TIME}
ApplyEnvs ==
    [sensor : {"unavailable", "25"}, climate : {NoClimate},
     target : {Some(25)}, elapsed : CycleElapsed]
ApplyInputs == ApplyOptions \X ApplyEnvs

InitApply ==
    /\ NoIntegration
    /\ \E rt \in ApplyOptions :
        CoordinatorInit(TuneEntry, rt.proportional_band, rt.integral_time,
                        rt.output_min, rt.output_max, rt.update_interval)

NextApply ==
    \/ \E in \in ApplyInputs : async_update_data(in[1], in[2]) /\ UNCHANGED haVars

SpecApply == InitApply /\ [][NextApply]_vars

(***************************************************************************)
(* The integration: async_setup_entry and async_reload_entry (__init__.py) *)
(* and the integral-term sensor that initialises the integral (sensor.py)  *)
(***************************************************************************)
\* dict.get(key, default), and {**a, **b}
get(d, key, default) == IF key \in DOMAIN d THEN d[key] ELSE default
Merged(a, b) ==
    [k \in DOMAIN a \cup DOMAIN b |-> IF k \in DOMAIN b THEN b[k] ELSE a[k]]

\* get_runtime_configurable_keys(): the keys of CONF_SPECS flagged
\* runtime_configurable
get_runtime_configurable_keys ==
    {"enabled", "target_temp", "auto_disable_on_hvac_off", "proportional_band",
     "integral_time", "output_min", "output_max", "update_interval"}

\* The keys whose values differ between two dicts; dict.get gives None for
\* a missing key, and no stored value is None
changed_keys(old_config, new_config) ==
    {key \in DOMAIN old_config \cup DOMAIN new_config :
        IF key \in DOMAIN old_config /\ key \in DOMAIN new_config
        THEN old_config[key] # new_config[key]
        ELSE TRUE}

\* The options of an entry with a temperature sensor and an output entity,
\* heating: update_interval and output_min are changed by their number
\* entities, enabled by its switch (the key is missing until the switch is
\* first operated), sensor_fault_mode by the options flow
EntryBase ==
    [temp_sensor : {"sensor.temperature"}, operating_mode : {"heat"},
     output_entity : {"number.output"},
     proportional_band : {COORD_PROP_BAND}, integral_time : {COORD_INT_TIME},
     update_interval : UpdateIntervals,
     output_min : {lo \in OptionLimits : lo < COORD_OUTPUT_MAX},
     sensor_fault_mode : {"shutdown", "hold"}]
EntryOptions ==
    EntryBase \cup {[enabled |-> v] @@ b : v \in BOOLEAN, b \in EntryBase}

\* resolve(options): each setting from the options, else its default
resolve(opts) ==
    [enabled |-> get(opts, "enabled", TRUE),
     auto_disable_on_hvac_off |-> get(opts, "auto_disable_on_hvac_off", TRUE),
     proportional_band |-> opts.proportional_band,
     integral_time |-> opts.integral_time,
     output_min |-> get(opts, "output_min", COORD_OUTPUT_MIN),
     output_max |-> get(opts, "output_max", COORD_OUTPUT_MAX),
     update_interval |-> opts.update_interval,
     climate_entity |-> get(opts, "climate_entity", ""),
     output_entity |-> get(opts, "output_entity", ""),
     operating_mode |-> opts.operating_mode,
     sensor_fault_mode |-> get(opts, "sensor_fault_mode", "shutdown")]

\* What the coordinator reads of the options that only a reload changes
EntryOf(opts) ==
    [climate_entity |-> resolve(opts).climate_entity # "",
     operating_mode |-> resolve(opts).operating_mode,
     output_entity |-> resolve(opts).output_entity # "",
     sensor_fault_mode |-> resolve(opts).sensor_fault_mode]

\* async_setup_entry up to the stored runtime data: the coordinator is
\* created from the entry's options
SetupCreated(opts) ==
    /\ options = opts
    /\ CoordinatorInit(EntryOf(opts), resolve(opts).proportional_band,
                       resolve(opts).integral_time, resolve(opts).output_min,
                       resolve(opts).output_max, resolve(opts).update_interval)
    /\ merged_config = opts
    /\ runtime_data = Some([config |-> opts])
    /\ setup = "created"
    /\ reloaded = "none"
    /\ flow = None

\* The integral-term startup settings: the modes of ITermStartupMode, the
\* startup value (0..100 %), and the state Home Assistant kept of the
\* i_term sensor ("missing": none)
StartupModes == {"zero", "fixed", "last"}
StartupValues == {0, 25}
LastStates == {"missing", "", "unknown", "unavailable", "warm", "nan", "15", "25"}

\* A percentage read from a text as an output value
PctF(x) == IF x = NaN THEN NaN ELSE Pct(x)

\* Mutant: mode 'last' does not look at the persisted state
async_added_to_hass_noLast(mode, startup_value, last_state) ==
    IF mode = "zero" THEN UNCHANGED piVars
    ELSE IF mode = "fixed" THEN restore_integral_term(Pct(startup_value))
    ELSE IF startup_value # 0 THEN restore_integral_term(Pct(startup_value))
    ELSE UNCHANGED piVars

\* ITermSensor.async_added_to_hass
async_added_to_hass(mode, startup_value, last_state) ==
    IF mode = "zero" THEN UNCHANGED piVars
    ELSE IF mode = "fixed" THEN restore_integral_term(Pct(startup_value))
    ELSE IF /\ last_state \notin {"missing", "", "unknown", "unavailable"}
            /\ ~IsNone(float(last_state))
    THEN restore_integral_term(PctF(Val(float(last_state))))
    ELSE IF startup_value # 0 THEN restore_integral_term(Pct(startup_value))
    ELSE UNCHANGED piVars

\* Mutant: the entities are added again while the coordinator is running
forward_entry_setups_again(mode, startup_value, last_state) ==
    /\ setup \in {"created", "running"}
    /\ async_added_to_hass(mode, startup_value, last_state)
    /\ setup' = IF setup = "created" THEN "platforms" ELSE setup
    /\ UNCHANGED <<entry, fault_cycles, last_good_output, last_data, last_applied,
                   data, written, pi_calls, cycle>>
    /\ UNCHANGED <<options, merged_config, runtime_data, reloaded, flow>>

\* async_setup_entry, the awaited async_forward_entry_setups: the sensor
\* platform adds its entities, the integral-term sensor among them
forward_entry_setups(mode, startup_value, last_state) ==
    /\ setup = "created"
    /\ async_added_to_hass(mode, startup_value, last_state)
    /\ setup' = "platforms"
    /\ UNCHANGED <<entry, fault_cycles, last_good_output, last_data, last_applied,
                   data, written, pi_calls, cycle>>
    /\ UNCHANGED <<options, merged_config, runtime_data, reloaded, flow>>

\* async_setup_entry, the awaited first refresh, after which the update
\* listener is registered
first_refresh(env) ==
    /\ setup = "platforms"
    /\ async_update_data(resolve(options), env)
    /\ setup' = "running"
    /\ UNCHANGED <<options, merged_config, runtime_data, reloaded, flow>>

\* A refresh the coordinator's timer schedules
scheduled_refresh(env) ==
    /\ setup = "running"
    /\ async_update_data(resolve(options), env)
    /\ UNCHANGED haVars

\* hass.config_entries.async_reload: the entry is unloaded and set up again,
\* async_setup_entry creating a new coordinator from the options
async_reload(opts) ==
    /\ entry' = EntryOf(opts)
    /\ pid' = ConstructPid(resolve(opts).proportional_band, resolve(opts).integral_time,
                           Pct(resolve(opts).output_min), Pct(resolve(opts).output_max),
                           resolve(opts).update_interval, COORD_TARGET_TEMP,
                           resolve(opts).operating_mode = "cool")
    /\ is_cooling' = (resolve(opts).operating_mode = "cool")
    /\ proportional_band' = resolve(opts).proportional_band
    /\ integral_time_min' = resolve(opts).integral_time
    /\ result' = NoResult
    /\ lastOp' = "init"
    /\ fault_cycles' = 0
    /\ last_good_output' = None
    /\ last_data' = None
    /\ last_applied' = [prop_band |-> resolve(opts).proportional_band,
                        int_time |-> resolve(opts).integral_time,
                        output_min |-> resolve(opts).output_min,
                        output_max |-> resolve(opts).output_max,
                        update_interval |-> resolve(opts).update_interval]
    /\ data' = None
    /\ written' = <<>>
    /\ pi_calls' = <<>>
    /\ cycle' = "none"
    /\ merged_config' = opts
    /\ runtime_data' = Some([config |-> opts])
    /\ setup' = "created"

\* Mutant: any non-empty set of changed keys is taken as a runtime change
RuntimeOnly_anyChange(old_config, new_config) ==
    changed_keys(old_config, new_config) # {}

\* async_reload_entry: the changed keys are all runtime-configurable
RuntimeOnly(old_config, new_config) ==
    /\ changed_keys(old_config, new_config) # {}
    /\ changed_keys(old_config, new_config) \subseteq get_runtime_configurable_keys

\* async_reload_entry, the update listener, called after Home Assistant
\* stored new_config as the entry's options; the requested refresh runs the
\* cycle in environment env
async_reload_entry(new_config, env) ==
    /\ setup = "running"
    /\ options' = new_config
    /\ UNCHANGED flow
    /\ IF ~IsNone(runtime_data) /\ RuntimeOnly(merged_config, new_config)
       THEN /\ merged_config' = new_config
            /\ runtime_data' = Some([config |-> new_config])
            /\ async_update_data(resolve(new_config), env)
            /\ reloaded' = "refresh"
            /\ UNCHANGED setup
       ELSE /\ async_reload(new_config)
            /\ reloaded' = "reload"

EntryEnvs ==
    [sensor : {"unavailable", "15", "25"}, climate : {NoClimate},
     target : {Some(25)}, elapsed : CycleElapsed]

InitEntry == \E opts \in EntryOptions : SetupCreated(opts)

NextEntry ==
    \/ \E mode \in StartupModes, startup_value \in StartupValues, last_state \in LastStates :
          forward_entry_setups(mode, startup_value, last_state)
    \/ \E env \in EntryEnvs : first_refresh(env)
    \/ \E env \in EntryEnvs : scheduled_refresh(env)
    \/ \E new_config \in EntryOptions, env \in EntryEnvs : async_reload_entry(new_config, env)

SpecEntry == InitEntry /\ [][NextEntry]_vars

(***************************************************************************)
(* The options flow (config_flow.py): a three-step wizard that collects    *)
(* its steps' inputs in _config_data and saves the options after step 3    *)
(***************************************************************************)
\* The dict without entries
EmptyDict == [k \in {} |-> ""]

\* What the forms submit.  An optional entity selector left empty sends no
\* key, a test client may send the empty string; the select fields are
\* required.  Fields no validation looks at are left out.
Step1Inputs ==
    [operating_mode : {"heat", "cool", "heat_cool"}]
    \cup [climate_entity : {"", "climate.living_room"},
          operating_mode : {"heat", "cool", "heat_cool"}]
Step2Inputs ==
    [target_temp_mode : {"internal", "external", "climate"}]
    \cup [temp_sensor : {"", "sensor.temp"},
          target_temp_mode : {"internal", "external", "climate"}]
Step3Inputs ==
    [sensor_fault_mode : {"shutdown", "hold"}]
    \cup [output_entity : {"number.output"}, sensor_fault_mode : {"shutdown", "hold"}]

\* Mutant: step 1 accepts every input
_validate_step_1_accept(user_input) == {}

\* _validate_step_1: the keys of the errors dict
_validate_step_1(user_input) ==
    IF /\ get(user_input, "operating_mode", "") = "heat_cool"
       /\ get(user_input, "climate_entity", "") = ""
    THEN {"operating_mode"}
    ELSE {}

\* _validate_step_2: the keys of the errors dict
_validate_step_2(user_input, has_climate) ==
    (IF get(user_input, "temp_sensor", "") = "" /\ ~has_climate
     THEN {"temp_sensor"} ELSE {})
    \cup
    (IF get(user_input, "target_temp_mode", "internal") = "climate" /\ ~has_climate
     THEN {"target_temp_mode"} ELSE {})

\* OptionsFlowHandler._has_climate
_has_climate ==
    get(Val(flow).config_data, "climate_entity",
        get(options, "climate_entity", "")) # ""

\* OptionsFlowHandler._merged_defaults with self._config_data = config_data
_merged_defaults(config_data) == Merged(options, config_data)

\* OptionsFlowHandler._finalize_and_save: the dict saved as the options
cleaned(merged) ==
    [k \in {key \in DOMAIN merged : merged[key] # ""} |-> merged[k]]

\* The integration's variables other than the entry's options and the flow
flowFrame ==
    <<pid, is_cooling, proportional_band, integral_time_min, result, lastOp,
      entry, fault_cycles, last_good_output, last_data, last_applied,
      data, written, pi_calls, cycle, setup, merged_config, runtime_data, reloaded>>

\* async_get_options_flow and the first form: OptionsFlowHandler.__init__,
\* async_step_init(None)
async_get_options_flow ==
    /\ IsNone(flow)
    /\ flow' = Some([step |-> "init", config_data |-> EmptyDict, errors |-> {}])
    /\ UNCHANGED options
    /\ UNCHANGED flowFrame

\* The user closes the dialog
flow_abort ==
    /\ ~IsNone(flow)
    /\ flow' = None
    /\ UNCHANGED options
    /\ UNCHANGED flowFrame

\* OptionsFlowHandler.async_step_init(user_input)
async_step_init(user_input) ==
    /\ ~IsNone(flow)
    /\ Val(flow).step = "init"
    /\ flow' = IF _validate_step_1(user_input) # {}
               THEN Some([Val(flow) EXCEPT !.errors = _validate_step_1(user_input)])
               ELSE Some([step |-> "2",
                          config_data |-> Merged(Val(flow).config_data, user_input),
                          errors |-> {}])
    /\ UNCHANGED options
    /\ UNCHANGED flowFrame

\* OptionsFlowHandler.async_step_2(user_input)
async_step_2(user_input) ==
    /\ ~IsNone(flow)
    /\ Val(flow).step = "2"
    /\ flow' = IF _validate_step_2(user_input, _has_climate) # {}
               THEN Some([Val(flow) EXCEPT
                             !.errors = _validate_step_2(user_input, _has_climate)])
               ELSE Some([step |-> "3",
                          config_data |-> Merged(Val(flow).config_data, user_input),
                          errors |-> {}])
    /\ UNCHANGED options
    /\ UNCHANGED flowFrame

\* OptionsFlowHandler.async_step_3(user_input) with _finalize_and_save:
\* the entry is created, Home Assistant stores its data as the entry's
\* options and the flow is over
async_step_3(user_input) ==
    /\ ~IsNone(flow)
    /\ Val(flow).step = "3"
    /\ options' = cleaned(_merged_defaults(Merged(Val(flow).config_data, user_input)))
    /\ flow' = None
    /\ UNCHANGED flowFrame

\* The entry as FlowHandler.async_step_user created it: no options yet, and
\* no coordinator looked at here
InitFlow ==
    /\ options = EmptyDict
    /\ flow = None
    /\ setup = "none"
    /\ merged_config = None
    /\ runtime_data = None
    /\ reloaded = "none"
    /\ pid = None
    /\ is_cooling = FALSE
    /\ proportional_band = COORD_PROP_BAND
    /\ integral_time_min = COORD_INT_TIME
    /\ result = NoResult
    /\ lastOp = "init"
    /\ entry = None
    /\ fault_cycles = 0
    /\ last_good_output = None
    /\ last_data = None
    /\ last_applied = None
    /\ data = None
    /\ written = <<>>
    /\ pi_calls = <<>>
    /\ cycle = "none"

NextFlow ==
    \/ async_get_options_flow
    \/ flow_abort
    \/ \E user_input \in Step1Inputs : async_step_init(user_input)
    \/ \E user_input \in Step2Inputs : async_step_2(user_input)
    \/ \E user_input \in Step3Inputs : async_step_3(user_input)

SpecFlow == InitFlow /\ [][NextFlow]_vars

(***************************************************************************)
(* C11: save/restore round trip.  Restoring get_integral_term() into a     *)
(* freshly constructed controller with identical parameters gives that     *)
(* controller the saved integral, and the next update with the same input  *)
(* and dt reports the same i_term on both controllers.                     *)
(***************************************************************************)
\* the PID object of a fresh controller with the current parameters, after
\* restoring the current integral into it
FreshRestored ==
    RestorePid(ConstructPid(proportional_band, integral_time_min,
                            pid.min_output, pid.max_output, pid.sample_time,
                            pid.setpoint, is_cooling),
               get_integral_term)

\* As stated (any dt):
C11_Original ==
    /\ FreshRestored.integral = get_integral_term
    /\ \A t \in Temps, dt \in Dts :
          PID_call(FreshRestored, t, dt).pid.integral = PID_call(pid, t, dt).pid.integral

\* C11 as amended: the restored integral equals the saved value, and the next
\* update with the same input and dt reports the same i_term on both
\* controllers when it is not gated on the original one (dt >= sample_time,
\* or the original holds no output); a gated update on the original reports
\* the unchanged integral while the fresh controller computes.
C11_RoundTrip ==
    /\ FreshRestored.integral = get_integral_term
    /\ FreshRestored.Kp = pid.Kp /\ FreshRestored.Ki = pid.Ki
    /\ \A t \in Temps, dt \in Dts :
          ~Gated(pid, dt) =>
             PID_call(FreshRestored, t, dt).pid.integral = PID_call(pid, t, dt).pid.integral

\* a controller that has accumulated integral by an effective update
C11_Witness ==
    /\ lastOp = "update"
    /\ ~result.gated
    /\ get_integral_term > pid.min_output
    /\ get_integral_term < pid.max_output
    /\ get_integral_term # 0

(***************************************************************************)
(* C12: reset() sets the integral accumulator to 0 for any output limits   *)
(* and leaves setpoint, proportional_band, integral_time, output limits,   *)
(* sample_time and is_cooling unchanged, the gain signs matching           *)
(* is_cooling.                                                             *)
(***************************************************************************)
ResetFrame ==
    /\ pid'.setpoint = pid.setpoint
    /\ pid'.min_output = pid.min_output /\ pid'.max_output = pid.max_output
    /\ pid'.sample_time = pid.sample_time
    /\ pid'.Kp = pid.Kp /\ pid'.Ki = pid.Ki
    /\ UNCHANGED <<is_cooling, proportional_band, integral_time_min>>
    /\ (is_cooling => pid'.Kp < 0 /\ pid'.Ki < 0)
    /\ (~is_cooling => pid'.Kp > 0 /\ pid'.Ki > 0)

\* As stated (the integral is 0 afterwards):
C12_Original == [][reset => (get_integral_term' = 0 /\ ResetFrame)]_vars

\* C12 as amended: reset() sets the integral accumulator to 0 brought into
\* the output limits (0 when output_min <= 0 <= output_max, output_min when
\* output_min > 0, output_max when output_max < 0) and leaves the rest.
C12_ResetFrame ==
    [][reset =>
          /\ get_integral_term' = Bounded(0, pid.min_output, pid.max_output)
          /\ ResetFrame]_vars

\* a reset with output_min > 0, in cooling mode
C12_Witness ==
    /\ lastOp = "reset"
    /\ pid.min_output > 0
    /\ get_integral_term = pid.min_output
    /\ is_cooling

(***************************************************************************)
(* C13: update_tunings(pb, it) replaces the gains by the converted values  *)
(* with the sign of the current mode and leaves integral, setpoint, output *)
(* limits, sample time and mode unchanged.                                 *)
(***************************************************************************)
C13_TuningsFrame ==
    [][\A pb \in PropBands, it \in IntegralTimes :
         update_tunings(pb, it) =>
            /\ pid'.Kp * pb = Sign * Pct(100)
            /\ pid'.Ki * it * 60 = pid'.Kp * KiDen
            /\ pid' = [pid EXCEPT !.Kp = pid'.Kp, !.Ki = pid'.Ki]
            /\ proportional_band' = pb /\ integral_time_min' = it
            /\ UNCHANGED is_cooling]_vars

\* a retuning of a controller that holds integral action and an output
C13_Witness ==
    /\ lastOp = "update_tunings"
    /\ get_integral_term > pid.min_output
    /\ ~IsNone(pid.last_output)
    /\ pid.Kp * pid.proportional > 0
    /\ Abs(pid.proportional) # Abs(pid.Kp) * 5
    /\ Abs(pid.proportional) # Abs(pid.Kp) * 10

(***************************************************************************)
(* C14: set_target(s) replaces the setpoint by s and changes nothing else. *)
(***************************************************************************)
C14_SetTargetFrame ==
    [][\A sp \in Setpoints :
         set_target(sp) =>
            /\ pid' = [pid EXCEPT !.setpoint = sp]
            /\ UNCHANGED <<is_cooling, proportional_band, integral_time_min>>]_vars

\* a setpoint change on a controller that holds integral action and an output
C14_Witness ==
    /\ lastOp = "set_target"
    /\ get_integral_term > pid.min_output
    /\ ~IsNone(pid.last_output)
    /\ pid.proportional # 0

(***************************************************************************)
(* C15: for every result returned by update, gated or not, after any       *)
(* sequence of mutators, output = p_term + i_term brought into the limits  *)
(* in force at that call.                                                  *)
(***************************************************************************)
\* As stated:
C15_Original ==
    lastOp = "update" =>
        result.output = Bounded(result.p_term + result.i_term,
                                pid.min_output, pid.max_output)

\* the held output still is the clamped sum of the stored terms
HeldConsistent ==
    \/ IsNone(pid.last_output)
    \/ Val(pid.last_output) = Bounded(pid.proportional + pid.integral,
                                      pid.min_output, pid.max_output)

\* C15 as amended: the equation holds for every result of an update that is
\* not gated, and for a gated one (which returns the held output with the
\* stored p_term and the current i_term) as long as update_output_limits was
\* not called since the last effective update: every other operation keeps
\* the held output equal to the clamped sum of the stored terms.
C15_OutputIsClampedSum ==
    [][/\ (lastOp' = "update" /\ (~result'.gated \/ HeldConsistent)) =>
             result'.output = Bounded(result'.p_term + result'.i_term,
                                      pid'.min_output, pid'.max_output)
       /\ (HeldConsistent /\ lastOp' # "update_output_limits") => HeldConsistent']_vars

\* an effective update whose sum of terms had to be clamped from above
C15_Witness ==
    /\ lastOp = "update"
    /\ ~result.gated
    /\ result.p_term + result.i_term > pid.max_output
    /\ result.output = pid.max_output
    /\ result.i_term < pid.max_output

InvalidTunings(pb, it) == pb <= 0 \/ it <= 0
InvalidLimits(lo, hi) == lo >= hi

C17_InvalidRejected ==
    [][/\ \A pb \in ErrPropBands, it \in ErrIntegralTimes, lim \in ErrLimits :
             (InvalidTunings(pb, it) \/ InvalidLimits(lim[1], lim[2]))
                => ConstructOutcome(pb, it, lim[1], lim[2]) # "none"
       /\ \A pb \in ErrPropBands, it \in ErrIntegralTimes :
             (update_tunings(pb, it) /\ InvalidTunings(pb, it))
                => (result'.raised # "none" /\ UNCHANGED <<pid, is_cooling,
                                         proportional_band, integral_time_min>>)
       /\ \A lim \in ErrLimits :
             (update_output_limits(lim[1], lim[2]) /\ InvalidLimits(lim[1], lim[2]))
                => (result'.raised # "none" /\ UNCHANGED <<pid, is_cooling,
                                         proportional_band, integral_time_min>>)]_vars

\* What the code does: the only rejections are a division by zero in
\* hvac_to_pid_gains and the library's check upper < lower; update_tunings has
\* stored its arguments before the division; everything else is accepted.
C17_CodeBehaviour ==
    [][/\ \A pb \in ErrPropBands, it \in ErrIntegralTimes, lim \in ErrLimits :
             (ConstructOutcome(pb, it, lim[1], lim[2]) # "none")
                <=> (pb = 0 \/ it = 0 \/ lim[2] < lim[1])
       /\ \A pb \in ErrPropBands, it \in ErrIntegralTimes :
             update_tunings(pb, it) =>
                /\ proportional_band' = pb /\ integral_time_min' = it
                /\ (result'.raised # "none") <=> (pb = 0 \/ it = 0)
                /\ (result'.raised # "none") => pid' = pid
       /\ \A lim \in ErrLimits :
             update_output_limits(lim[1], lim[2]) =>
                /\ (result'.raised # "none") <=> (lim[2] < lim[1])
                /\ (result'.raised # "none") => pid' = pid
                /\ (lim[1] = lim[2] => (pid'.min_output = lim[1] /\ pid'.max_output = lim[1]))]_vars

(***************************************************************************)
(* C18: update called with an elapsed time of 0 raises no error and        *)
(* returns a defined, in-bounds output equal to the last known output;     *)
(* update, the mutators (given valid preconditions), reset and the         *)
(* persistence accessors never raise.                                      *)
(***************************************************************************)
\* the operations other than update raise nothing when their preconditions hold
MutatorsDoNotRaise ==
    /\ lastOp' \notin {"update", "update_tunings", "update_output_limits"}
          => result'.raised = "none"
    /\ (lastOp' = "update_tunings"
          /\ ~InvalidTunings(proportional_band', integral_time_min'))
          => result'.raised = "none"
    /\ \A lim \in ErrLimits :
          (update_output_limits(lim[1], lim[2]) /\ ~InvalidLimits(lim[1], lim[2]))
             => result'.raised = "none"

\* As stated (dt = 0 passed to update):
C18_Original ==
    [][/\ \A t \in ErrTemps, dt \in ErrDts :
             update(t, dt) =>
                /\ result'.raised = "none"
                /\ pid'.min_output <= result'.output
                /\ result'.output <= pid'.max_output
                /\ (dt = 0 /\ ~IsNone(pid.last_output))
                      => result'.output = Val(pid.last_output)
       /\ MutatorsDoNotRaise]_vars

\* C18 as amended: update called without dt raises no error, and when no
\* wall-clock time has elapsed since the last call it returns the last known
\* output (the first call computes); update with an explicit dt > 0 raises
\* no error; both return an output within the limits.  update with an
\* explicit dt <= 0 raises ValueError and leaves the controller unchanged.
\* The mutators (given valid preconditions), reset and the persistence
\* accessors never raise.
C18_RaisesOnlyOnBadDt ==
    [][/\ \A t \in ErrTemps, dt \in ErrDts :
             update(t, dt) =>
                IF dt > 0
                THEN /\ result'.raised = "none"
                     /\ pid'.min_output <= result'.output
                     /\ result'.output <= pid'.max_output
                ELSE /\ result'.raised = "ValueError"
                     /\ pid' = pid
       /\ \A t \in ErrTemps, e \in Elapsed :
             update_now(t, e) =>
                /\ result'.raised = "none"
                /\ pid'.min_output <= result'.output
                /\ result'.output <= pid'.max_output
                /\ (e = 0 /\ ~IsNone(pid.last_output))
                      => (result'.output = Val(pid.last_output) /\ pid' = pid)
       /\ MutatorsDoNotRaise]_vars

\* an update with dt = 0 on a controller that holds an output
C18_Witness ==
    /\ lastOp = "update"
    /\ result.raised = "ValueError"
    /\ ~IsNone(pid.last_output)
    /\ get_integral_term > pid.min_output

(***************************************************************************)
(* C19: on a freshly constructed heating controller with proportional band *)
(* 4.0, integral time 30 min, limits [0, 100], sample time 60 s and        *)
(* setpoint 21.0, update(18.0, 60.0) returns error 3.0, p_term 75.0 and    *)
(* output 100.0 (clamped).                                                 *)
(***************************************************************************)
\* the example's call, made on the controller as constructed
ExampleCall == lastOp = "init" /\ update(18, 60)

\* As stated (output clamped to 100):
C19_Original ==
    [][ExampleCall =>
          /\ result'.deviation = 3
          /\ result'.p_term = Pct(75)
          /\ result'.output = Pct(100)]_vars

\* C19 as amended: the call returns error 3.0, p_term 75.0, i_term 2.5
\* (ki * 3 K * 60 s with ki = 25/1800) and output 77.5, which is within the
\* limits and not clamped.
C19_Example ==
    [][ExampleCall =>
          /\ result'.deviation = 3
          /\ result'.p_term = Pct(75)
          /\ 2 * result'.i_term = Pct(5)
          /\ 2 * result'.output = Pct(155)
          /\ result'.output = result'.p_term + result'.i_term
          /\ result'.output < pid.max_output]_vars

\* the state after the example's call
C19_Witness ==
    /\ lastOp = "update"
    /\ result.deviation = 3
    /\ result.p_term = Pct(75)
    /\ IsNone(pid.last_output) = FALSE
    /\ 2 * get_integral_term = Pct(5)
    /\ 2 * result.output = Pct(155)

(***************************************************************************)
(* C20: hvac_to_pid_gains(pb, it) returns kp = 100/pb and                  *)
(* ki = kp/(it*60) for all pb > 0, it > 0; both are positive, kp strictly  *)
(* decreases as pb increases and ki strictly decreases as it increases.    *)
(* Stated for the parameters the controller was last given, against every  *)
(* other representable pair.                                               *)
(***************************************************************************)
C20_GainsFunction ==
    LET pb == proportional_band
        it == integral_time_min
        g == hvac_to_pid_gains(pb, it)
    IN  /\ g.kp * pb = Pct(100)
        /\ g.ki * it * 60 = g.kp * KiDen
        /\ g.kp > 0 /\ g.ki > 0
        /\ Abs(pid.Kp) = g.kp /\ Abs(pid.Ki) = g.ki
        /\ \A pr \in GainPairs :
              LET h == hvac_to_pid_gains(pr[1], pr[2])
              IN  /\ (pr[1] > pb => h.kp < g.kp)
                  /\ (pr[1] = pb /\ pr[2] > it => h.ki < g.ki)
                  /\ (pr[1] = pb => h.kp = g.kp)

\* a retuning to proportional band 8 K and integral time 5 min:
\* kp = 12.5 %/K and ki = 12.5/300 %/(K s)
C20_Witness ==
    /\ lastOp = "update_tunings"
    /\ proportional_band = 8 /\ integral_time_min = 5
    /\ pid.Kp * 8 = Pct(100)
    /\ pid.Ki * 300 = pid.Kp * KiDen

(***************************************************************************)
(* Helpers of the coordinator's properties                                 *)
(***************************************************************************)
\* The controller method op was called in the latest cycle
Called(op) == \E i \in 1..Len(pi_calls) : pi_calls[i] = op

FaultCycles == {"fault_hold", "fault_grace_exceeded", "fault_unknown", "fault_shutdown"}

(***************************************************************************)
(* C21: the coordinator calls PIController.update only with a finite       *)
(* temperature: a cycle whose temperature source is missing, unavailable,  *)
(* unknown or holds no finite number (NaN included) does not call update   *)
(* and takes the sensor-fault path.  current_temp of the published data is *)
(* what the cycle read; here: whenever update was called, it is a finite   *)
(* number.                                                                 *)
(***************************************************************************)
C21_UpdateOnlyWithFiniteTemp ==
    Called("update") =>
        /\ ~IsNone(Val(data).current_temp)
        /\ Val(Val(data).current_temp) # NaN

\* What the code does: a cycle that read no temperature (source missing,
\* unavailable, unknown or no number: float() raises) takes the sensor-fault
\* path without calling update, but the text "nan" passes float(): the cycle
\* is a normal one, update is called with NaN, and NaN becomes the integral,
\* the last good output and the output written
C21_CodeBehaviour ==
    /\ cycle \in FaultCycles =>
          IsNone(Val(data).current_temp) /\ ~Called("update")
    /\ cycle = "normal" =>
          /\ Called("update")
          /\ ~IsNone(Val(data).current_temp)
          /\ Val(Val(data).current_temp) = NaN =>
                /\ pid.integral = NaN
                /\ last_good_output = Some(NaN)
                /\ written = async_write_output(NaN)
                /\ Val(data).sensor_available

(***************************************************************************)
(* C22: with the options at their defaults or set through the number       *)
(* entities (proportional_band, integral_time, output_min, output_max and  *)
(* update_interval, each set on its own within its range), the PI          *)
(* controller is never constructed with, nor updated to,                   *)
(* proportional_band <= 0, integral_time <= 0 or output_min >= output_max. *)
(***************************************************************************)
C22_ValidParameters ==
    /\ proportional_band > 0
    /\ integral_time_min > 0
    /\ pid.min_output < pid.max_output

\* What the code does: the ranges keep proportional band and integral time
\* positive, but output_min and output_max are not checked against each
\* other: equal limits are taken, and with output_min above output_max the
\* limits setter raises out of the cycle, after the fault counter was reset
\* and before update is called, in this and every following cycle
C22_CodeBehaviour ==
    /\ proportional_band > 0
    /\ integral_time_min > 0
    /\ pid.min_output <= pid.max_output
    /\ cycle = "raised" =>
          /\ result.raised = "ValueError"
          /\ lastOp = "update_output_limits"
          /\ ~Called("update")
          /\ fault_cycles = 0
          /\ written = <<>>

\* a cycle that ended in the limits setter's ValueError, and a controller
\* running with equal limits
C22_RaisedReached == cycle = "raised"
C22_EqualLimitsReached == cycle = "normal" /\ pid.min_output = pid.max_output

(***************************************************************************)
(* C23: in HOLD fault mode with a previously computed good output, the     *)
(* k-th cycle with an unavailable temperature since the last successful    *)
(* read returns the last good output with sensor_available = false for     *)
(* every k <= grace_cycles = max(1, SENSOR_FAULT_GRACE_PERIOD_SECONDS //   *)
(* max(update_interval, 1)), of the interval in force in that cycle; a     *)
(* later such cycle returns output 0 and writes 0 to the output entity     *)
(* (where one is configured); a successful read resets the fault count.    *)
(***************************************************************************)
C23_HoldGrace ==
    [][\A rt \in HoldOptions, env \in HoldEnvs :
        (async_update_data(rt, env) /\ rt.enabled) =>
            LET k == fault_cycles + 1
                grace == IF SENSOR_FAULT_GRACE_PERIOD_SECONDS \div rt.update_interval > 1
                         THEN SENSOR_FAULT_GRACE_PERIOD_SECONDS \div rt.update_interval
                         ELSE 1
            IN  IF env.sensor = "unavailable"
                THEN ~IsNone(last_good_output) =>
                        /\ fault_cycles' = k
                        /\ last_good_output' = last_good_output
                        /\ ~Val(data').sensor_available
                        /\ IF k <= grace
                           THEN Val(data').output = last_good_output
                           ELSE /\ Val(data').output = Some(0)
                                /\ written' = IF entry.output_entity
                                              THEN <<0>> ELSE <<>>
                ELSE fault_cycles' = 0]_vars

\* the fourth cycle without a temperature at an interval of 600 s (three
\* grace cycles): a good output other than 0 was held and is now given up
C23_Witness ==
    /\ cycle = "fault_grace_exceeded"
    /\ fault_cycles = 4
    /\ written = <<0>>
    /\ Val(data).output = Some(0)
    /\ last_good_output # Some(0)

(***************************************************************************)
(* C24: in SHUTDOWN fault mode, every enabled and not auto-disabled cycle  *)
(* in which the current temperature is unavailable returns output 0 with   *)
(* sensor_available = false and writes 0 to the configured output entity,  *)
(* without running a PI update.  (current_temp of the published data is    *)
(* the temperature the cycle read.)                                        *)
(***************************************************************************)
C24_ShutdownOnFault ==
    (/\ entry.sensor_fault_mode = "shutdown"
     /\ cycle \notin {"none", "paused", "auto_disabled"}
     /\ IsNone(Val(data).current_temp))
    => /\ Val(data).output = Some(0)
       /\ ~Val(data).sensor_available
       /\ written = IF entry.output_entity THEN <<0>> ELSE <<>>
       /\ ~Called("update")

\* the sensor drops out after a cycle that computed an output above 0
C24_Witness ==
    /\ entry.sensor_fault_mode = "shutdown"
    /\ entry.output_entity
    /\ cycle = "fault_shutdown"
    /\ IsNone(Val(data).current_temp)
    /\ written = <<0>>
    /\ ~IsNone(last_good_output)
    /\ last_good_output # Some(0)

(***************************************************************************)
(* C25: in HOLD fault mode, when the temperature is unavailable and no     *)
(* prior good output exists (e.g. the first cycle after a restart), the    *)
(* cycle shuts down: it returns output 0 with sensor_available = false.    *)
(* (A sensor-fault cycle leaves the last good output as it was.)           *)
(***************************************************************************)
C25_HoldNoPriorShutsDown ==
    (/\ entry.sensor_fault_mode = "hold"
     /\ cycle \in FaultCycles
     /\ IsNone(last_good_output))
    => /\ Val(data).output = Some(0)
       /\ ~Val(data).sensor_available

\* What the code does: the cycle returns the unknown result, whose output is
\* None, writes nothing and does not count the fault
C25_CodeBehaviour ==
    (/\ entry.sensor_fault_mode = "hold"
     /\ cycle \in FaultCycles
     /\ IsNone(last_good_output))
    => /\ cycle = "fault_unknown"
       /\ Val(data).output = None
       /\ ~Val(data).sensor_available
       /\ written = <<>>
       /\ fault_cycles = 0

(***************************************************************************)
(* C26: pausing preserves the last state: a cycle run with the enabled     *)
(* option false returns the output, deviation, p_term and i_term of the    *)
(* result of the immediately preceding cycle, whatever kind of cycle that  *)
(* was (normal, sensor fault / shutdown, auto-disabled).                   *)
(***************************************************************************)
C26_PausePreservesPreceding ==
    [][\A in \in PausedInputs :
        (async_update_data(in[1], in[2]) /\ ~IsNone(data)) =>
            /\ Val(data').output = Val(data).output
            /\ Val(data').deviation = Val(data).deviation
            /\ Val(data').p_term = Val(data).p_term
            /\ Val(data').i_term = Val(data).i_term]_vars

\* What the code does: only a normal cycle stores its result in _last_data,
\* so a paused cycle returns the result of the latest normal cycle, however
\* many sensor-fault or auto-disabled cycles came after it, and the unknown
\* result when there was no normal cycle
C26_CodeBehaviour ==
    /\ cycle = "paused" =>
          data = IF IsNone(last_data)
                 THEN Some(unknown_result(None, None, TRUE))
                 ELSE last_data
    /\ cycle = "normal" => last_data = data
    /\ cycle \in FaultCycles \cup {"auto_disabled"} => last_data # data

(***************************************************************************)
(* C27: a cycle with enabled = false has no side effects: it reads no      *)
(* temperature (it goes the same way whatever the sensor and the target    *)
(* source hold), calls no PI controller operation (integral, mode and      *)
(* setpoint unchanged), leaves the fault counter, the last good output and *)
(* the last stored data unchanged, and does not write to the output        *)
(* entity.                                                                 *)
(***************************************************************************)
C27_PausedFrame ==
    [][\A in \in PausedInputs :
        async_update_data(in[1], in[2]) =>
            /\ UNCHANGED <<pid, is_cooling, proportional_band, integral_time_min>>
            /\ UNCHANGED <<fault_cycles, last_good_output, last_data, last_applied>>
            /\ pi_calls' = <<>>
            /\ written' = <<>>
            /\ \A other \in PausedInputs :
                   async_update_data(other[1], other[2])]_vars

\* the switch is turned off during a sensor outage in HOLD mode, with an
\* integral built up, a fault counted and an output entity to write to
C27_Witness ==
    /\ cycle = "paused"
    /\ entry.output_entity
    /\ fault_cycles = 2
    /\ pid.integral > 0
    /\ ~IsNone(last_data)
    /\ written = <<>>

(***************************************************************************)
(* C28: when the controller is paused (enabled = false) and no previous    *)
(* cycle data exists (first cycle after startup), the cycle returns a safe *)
(* default result with output = 0.                                         *)
(***************************************************************************)
C28_PausedDefaultIsZero ==
    (cycle = "paused" /\ IsNone(last_data)) => Val(data).output = Some(0)

\* What the code does: the default is the unknown result, which has no
\* output at all (None), reports the sensor as available and holds no
\* temperatures; nothing is written
C28_CodeBehaviour ==
    (cycle = "paused" /\ IsNone(last_data)) =>
        /\ data = Some(unknown_result(None, None, TRUE))
        /\ Val(data).output = None
        /\ written = <<>>

C30_AutoDisable ==
    [][\A rt \in AutoOptions, env \in AutoEnvs :
        async_update_data(rt, env) =>
            IF /\ entry.climate_entity
               /\ rt.auto_disable_on_hvac_off
               /\ env.climate.state = "off"
            THEN /\ Val(data').output = Some(0)
                 /\ written' = IF entry.output_entity THEN <<0>> ELSE <<>>
                 /\ pi_calls' = <<>>
                 /\ UNCHANGED <<pid, is_cooling, proportional_band,
                                integral_time_min>>
            ELSE /\ pi_calls' # <<>>
                 /\ pi_calls'[1] = "set_cooling"
                 /\ IF env.sensor = "unavailable"
                    THEN cycle' \in FaultCycles
                    ELSE /\ cycle' = "normal"
                         /\ pi_calls'[Len(pi_calls')] = "update"]_vars

\* the climate entity is switched off while the controller holds an
\* integral and a computed output above 0
C30_Witness ==
    /\ cycle = "auto_disabled"
    /\ entry.output_entity
    /\ written = <<0>>
    /\ Val(data).output = Some(0)
    /\ pid.integral > 0
    /\ ~IsNone(last_good_output)
    /\ last_good_output # Some(0)

(***************************************************************************)
(* C31: after every cycle that runs the PI controller, the controller's    *)
(* proportional band, integral time (and the gains made of them), output   *)
(* limits and sample time are those of the options resolved in that cycle, *)
(* and the coordinator's update interval is the resolved one; a mutator of *)
(* the controller is called only when a resolved value it takes differs    *)
(* from the one applied last.  The coordinator's update_interval is        *)
(* assigned together with _last_update_interval, in __init__ and in        *)
(* _apply_tuning_changes, and is read here as last_applied.update_interval.*)
(***************************************************************************)
C31_TuningsFollowOptions ==
    [][\A in \in ApplyInputs :
          (async_update_data(in[1], in[2]) /\ cycle' = "normal") =>
             LET rt == in[1]
                 g == hvac_to_pid_gains(rt.proportional_band, rt.integral_time)
             IN  /\ proportional_band' = rt.proportional_band
                 /\ integral_time_min' = rt.integral_time
                 /\ pid'.Kp = g.kp
                 /\ pid'.Ki = g.ki
                 /\ pid'.min_output = Pct(rt.output_min)
                 /\ pid'.max_output = Pct(rt.output_max)
                 /\ pid'.sample_time = rt.update_interval
                 /\ last_applied'.update_interval = rt.update_interval
                 /\ last_applied' = [prop_band |-> rt.proportional_band,
                                     int_time |-> rt.integral_time,
                                     output_min |-> rt.output_min,
                                     output_max |-> rt.output_max,
                                     update_interval |-> rt.update_interval]
                 /\ Called("update_tunings")' =>
                       \/ rt.proportional_band # last_applied.prop_band
                       \/ rt.integral_time # last_applied.int_time
                 /\ Called("update_output_limits")' =>
                       \/ rt.output_min # last_applied.output_min
                       \/ rt.output_max # last_applied.output_max
                 /\ Called("update_sample_time")' =>
                       rt.update_interval # last_applied.update_interval]_vars

\* a cycle that ran the controller after changing tunings, limits and
\* sample time, all three
C31_Witness ==
    /\ cycle = "normal"
    /\ Called("update_tunings")
    /\ Called("update_output_limits")
    /\ Called("update_sample_time")
    /\ Called("update")

(***************************************************************************)
(* C32: at startup the integral term is initialised according to the       *)
(* startup mode.  ZERO leaves it at 0, FIXED restores the configured       *)
(* startup value, LAST restores the persisted state of the i_term sensor   *)
(* when it is a parseable number and otherwise falls back to the startup   *)
(* value, leaving the integral at 0 when that value is 0.                  *)
(***************************************************************************)
\* The value the startup mode asks for, None when nothing is restored
StartupIntegral(mode, startup_value, last_state) ==
    IF mode = "zero" THEN None
    ELSE IF mode = "fixed" THEN Some(Pct(startup_value))
    ELSE IF /\ last_state \notin {"missing", "", "unknown", "unavailable"}
            /\ ~IsNone(float(last_state))
    THEN Some(PctF(Val(float(last_state))))
    ELSE IF startup_value # 0 THEN Some(Pct(startup_value))
    ELSE None

C32_ClampedReached ==
    /\ setup = "platforms"
    /\ lastOp = "restore_integral_term"
    /\ pid.min_output > 0
    /\ pid.integral = pid.min_output

(***************************************************************************)
(* C33: restore_integral_term is invoked on a controller only before that  *)
(* controller's first update.  The integral is restored while the entities *)
(* are added, which async_setup_entry awaits before the coordinator's      *)
(* first refresh; once a cycle has run on a controller its integral is not *)
(* restored again.  A reload creates a new controller, for which the same  *)
(* holds.                                                                  *)
(***************************************************************************)
C33_RestoreBeforeFirstUpdate ==
    [][/\ setup \in {"created", "platforms"} =>
             /\ cycle = "none"
             /\ data = None
             /\ IsNone(pid.last_output)
       /\ \A mode \in StartupModes, startup_value \in StartupValues,
             last_state \in LastStates :
             forward_entry_setups(mode, startup_value, last_state) =>
                /\ cycle = "none"
                /\ IsNone(pid.last_output)
       /\ (lastOp' = "restore_integral_term" /\ pid' # pid) =>
             /\ setup = "created"
             /\ cycle = "none"]_vars

\* after a reload the new controller has had its integral restored and has
\* not run a cycle yet
C33_Witness ==
    /\ reloaded = "reload"
    /\ setup = "platforms"
    /\ lastOp = "restore_integral_term"
    /\ pid.integral > pid.min_output
    /\ cycle = "none"

\* a cycle has called update on a controller whose integral was restored
C33_UpdatedAfterRestore ==
    /\ setup = "running"
    /\ cycle = "normal"
    /\ Called("update")

C34_ReloadReached ==
    /\ reloaded = "reload"
    /\ setup = "created"

(***************************************************************************)
(* C35: the options flow advances strictly init -> 2 -> 3 -> create entry. *)
(* A step whose input fails validation (heat_cool without a climate entity *)
(* in step 1; neither temperature sensor nor climate entity, or target     *)
(* mode 'climate' without a climate entity, in step 2) shows the same step *)
(* again with the error and records none of that input; options are saved  *)
(* only after step 3; so the saved options never combine heat_cool or a    *)
(* 'climate' target mode with a missing climate entity.                    *)
(***************************************************************************)
\* An option is set to a non-empty value
HasOption(d, key) == get(d, key, "") # ""

\* The saved options name a climate entity wherever they need one
SavedConsistent(d) ==
    /\ get(d, "operating_mode", "") = "heat_cool" => HasOption(d, "climate_entity")
    /\ get(d, "target_temp_mode", "") = "climate" => HasOption(d, "climate_entity")

C35_FlowOrder ==
    [][/\ SavedConsistent(options)
       /\ \A key \in DOMAIN options : options[key] # ""
       /\ options' # options => (~IsNone(flow) /\ Val(flow).step = "3" /\ IsNone(flow'))
       /\ (~IsNone(flow) /\ ~IsNone(flow') /\ Val(flow').step # Val(flow).step) =>
             <<Val(flow).step, Val(flow').step>> \in {<<"init", "2">>, <<"2", "3">>}
       /\ (IsNone(flow) /\ ~IsNone(flow')) =>
             Val(flow') = [step |-> "init", config_data |-> EmptyDict, errors |-> {}]
       /\ \A user_input \in Step1Inputs :
             async_step_init(user_input) =>
                IF /\ user_input.operating_mode = "heat_cool"
                   /\ ~HasOption(user_input, "climate_entity")
                THEN /\ Val(flow').step = "init"
                     /\ Val(flow').errors # {}
                     /\ Val(flow').config_data = Val(flow).config_data
                ELSE /\ Val(flow').step = "2"
                     /\ Val(flow').errors = {}
                     /\ \A key \in DOMAIN user_input :
                           Val(flow').config_data[key] = user_input[key]
       /\ \A user_input \in Step2Inputs :
             async_step_2(user_input) =>
                IF \/ ~HasOption(user_input, "temp_sensor") /\ ~_has_climate
                   \/ user_input.target_temp_mode = "climate" /\ ~_has_climate
                THEN /\ Val(flow').step = "2"
                     /\ Val(flow').errors # {}
                     /\ Val(flow').config_data = Val(flow).config_data
                ELSE /\ Val(flow').step = "3"
                     /\ Val(flow').errors = {}
                     /\ \A key \in DOMAIN user_input :
                           Val(flow').config_data[key] = user_input[key]
       /\ \A user_input \in Step3Inputs :
             async_step_3(user_input) =>
                /\ IsNone(flow')
                /\ SavedConsistent(options')
                /\ \A key \in DOMAIN user_input : options'[key] = user_input[key]
                /\ \A key \in DOMAIN Val(flow).config_data :
                      Val(flow).config_data[key] # "" =>
                         options'[key] = Val(flow).config_data[key]]_vars

\* options saved by a flow: heat_cool with the climate entity it needs and
\* the target temperature taken from it
C35_Witness ==
    /\ IsNone(flow)
    /\ get(options, "operating_mode", "") = "heat_cool"
    /\ get(options, "target_temp_mode", "") = "climate"
    /\ HasOption(options, "climate_entity")

\* step 1 shown again with its error, nothing recorded
C35_RejectedReached ==
    /\ ~IsNone(flow)
    /\ Val(flow).step = "init"
    /\ Val(flow).errors # {}
    /\ Val(flow).config_data = EmptyDict

\* step 2 shown again with an error after the climate entity was removed in
\* step 1 of the same flow
C35_Step2RejectedReached ==
    /\ ~IsNone(flow)
    /\ Val(flow).step = "2"
    /\ "target_temp_mode" \in Val(flow).errors
    /\ HasOption(options, "climate_entity")

(***************************************************************************)
(* C36: in HOLD fault mode, once a fault cycle has returned the shutdown   *)
(* result (output 0) because the grace period was exceeded, every later    *)
(* cycle with an unavailable temperature also returns output 0 until a     *)
(* temperature is read again, whatever runtime options (such as            *)
(* update_interval) change in between.  Here: the cycle that follows a     *)
(* grace-exceeded shutdown, if it finds the temperature unavailable too,   *)
(* returns output 0 (cycles run with the enabled switch off in between     *)
(* report the last normal cycle's data and are passed over).               *)
(***************************************************************************)
C36_ShutdownLatched ==
    [][(/\ cycle = "fault_grace_exceeded"
        /\ cycle' \in FaultCycles
        /\ data' # data) =>
          Val(data').output = Some(0)]_vars

\* What the code does: the shutdown does not clear _last_good_output and is
\* not remembered; each fault cycle compares the running count with the
\* grace cycles of its own update_interval, so a shorter interval set after
\* the shutdown lets the held output come back
C36_CodeBehaviour ==
    [][\A rt \in GraceOptions, env \in HoldEnvs :
          (/\ async_update_data(rt, env)
           /\ rt.enabled
           /\ env.sensor = "unavailable"
           /\ cycle = "fault_grace_exceeded") =>
             /\ fault_cycles' = fault_cycles + 1
             /\ last_good_output' = last_good_output
             /\ IF fault_cycles + 1 <= grace_cycles(rt)
                THEN /\ cycle' = "fault_hold"
                     /\ Val(data').output = last_good_output
                     /\ written' = <<>>
                ELSE /\ cycle' = "fault_grace_exceeded"
                     /\ Val(data').output = Some(0)]_vars

\* the output given up after three grace cycles at 600 s is held again in
\* the fifth cycle without a temperature, the interval now being 300 s
C36_HeldAgainReached ==
    /\ cycle = "fault_hold"
    /\ fault_cycles = 5
    /\ Val(data).output = last_good_output
    /\ last_good_output # Some(0)

(***************************************************************************)
(* C37: with an output entity configured and every write succeeding, after *)
(* every cycle that reports an output other than None the value written    *)
(* last to the output entity is the output the cycle reports, across       *)
(* normal, paused, auto-disabled, held and shutdown cycles.  Here, for two *)
(* cycles in a row: a cycle that writes reports what it wrote, and a cycle *)
(* that writes nothing after one that wrote reports what that one wrote.   *)
(***************************************************************************)
C37_PublishedIsWritten ==
    [][(/\ entry.output_entity
        /\ cycle' # "none"
        /\ ~IsNone(data')
        /\ ~IsNone(Val(data').output)) =>
          IF written' # <<>>
          THEN Val(data').output = Some(written'[Len(written')])
          ELSE written # <<>> =>
                  Val(data').output = Some(written[Len(written)])]_vars

\* What the code does: a normal cycle writes the output it reports, an
\* auto-disabled or shutdown cycle writes the 0 it reports, and a paused or
\* held cycle writes nothing while reporting the output of the latest
\* normal cycle, whatever was written since
C37_CodeBehaviour ==
    /\ cycle = "normal" =>
          written = async_write_output(Val(Val(data).output))
    /\ cycle \in {"auto_disabled", "fault_shutdown", "fault_grace_exceeded"} =>
          /\ written = async_write_output(0)
          /\ Val(data).output = Some(0)
    /\ cycle = "paused" =>
          /\ written = <<>>
          /\ data = Some(paused_result)
    /\ cycle = "fault_hold" =>
          /\ written = <<>>
          /\ Val(data).output = last_good_output
    /\ cycle = "fault_unknown" =>
          /\ written = <<>>
          /\ IsNone(Val(data).output)

(***************************************************************************)
(* C38 as stated: a cycle in which the current temperature is unavailable  *)
(* (in SHUTDOWN or HOLD mode, in every operating mode, heat_cool included) *)
(* leaves the integral accumulator of the PI controller unchanged.         *)
(***************************************************************************)
C38_Original ==
    [][cycle' \in FaultCycles => pid'.integral = pid.integral]_vars

(***************************************************************************)
(* C38: a cycle in which the current temperature is unavailable leaves the *)
(* integral accumulator unchanged when the direction it determines is the  *)
(* controller's; when the direction differs (heat_cool, hvac_action        *)
(* changed) set_cooling, which runs before the sensor is read, resets the  *)
(* accumulator to 0 brought into the output limits.                        *)
(***************************************************************************)
C38_FaultKeepsIntegral ==
    [][cycle' \in FaultCycles =>
          IF is_cooling' = is_cooling
          THEN pid'.integral = pid.integral
          ELSE pid'.integral = clamp(0, pid.min_output, pid.max_output)]_vars

\* A fault cycle ran on a controller that holds accumulated integral action
C38_Witness ==
    /\ cycle \in FaultCycles
    /\ pid.integral # 0
    /\ fault_cycles > 0

\* A fault cycle in heat_cool changed the direction and cleared the integral
C38_ResetReached ==
    /\ cycle \in FaultCycles
    /\ entry.operating_mode = "heat_cool"
    /\ lastOp = "set_cooling"
    /\ pid.integral = 0

\* The operations that leave the controller without a held output
Resetting == {"reset", "set_cooling", "restore_integral_term"}

C39_GatedReached ==
    /\ lastOp = "update"
    /\ result.gated
    /\ ~IsNone(pid.last_output)

(***************************************************************************)
(* C40: in every result returned by update, p_term = gain_p * deviation    *)
(* for the gains and the setpoint in force at that call, calls gated by    *)
(* sample_time after set_target or update_tunings included.                *)
(***************************************************************************)
C40_PTermMatchesDeviation ==
    (lastOp = "update" /\ result.raised = "none") =>
        result.p_term = pid.Kp * result.deviation

\* What the code does: an update that is not gated reports the proportional
\* term of its own computation; a gated update leaves the PID object as it
\* is and reports the proportional term stored by the latest effective
\* update next to a deviation taken from the current setpoint and input
C40_CodeBehaviour ==
    [][(lastOp' = "update" /\ result'.raised = "none") =>
          IF result'.gated
          THEN /\ pid' = pid
               /\ result'.p_term = pid.proportional
               /\ result'.output = Val(pid.last_output)
          ELSE result'.p_term = pid.Kp * result'.deviation]_vars

\* A gated update reported a proportional term that is not gain_p * deviation
C40_StaleReached ==
    /\ lastOp = "update"
    /\ result.gated
    /\ result.p_term # pid.Kp * result.deviation

====
